---- MODULE Spec2Model ----
(***************************************************************************)
(* Gradient-mesh editor: the editor store (grid, selection, settings,      *)
(* listeners, undo history) and the UI handlers that drive it.             *)
(*                                                                         *)
(* Numbers.  The program computes with IEEE doubles; the model computes    *)
(* with integers in fixed units:                                           *)
(*   - normalized positions and handle offsets: 1.0 = PosUnit, a tenth of  *)
(*     the mirror threshold 0.0001 of moveHandle being 1;                  *)
(*   - colour channels, opacities, animation/effect/noise settings and     *)
(*     pointer coordinates (px): 1.0 = Cent.                               *)
(* Inputs are chosen so that the divisions of the handlers are exact; a    *)
(* quotient or a square root that is not an integer is rounded down.       *)
(*                                                                         *)
(* Objects.  The row arrays of a grid are mutable objects with identity    *)
(* (movePoint and friends assign into them in place), so they live in      *)
(* `heap` and a grid holds their addresses.  Everything else the code      *)
(* replaces wholesale and is modelled by value.                            *)
(***************************************************************************)
EXTENDS Integers, Sequences, FiniteSets, TLC

VARIABLES
  grid,             \* state.grid: [rows, cols, width, height, points: Seq(address)]
  heap,             \* address -> row array (Seq of MeshPoint)
  selectedPoint,    \* state.selectedPoint ({row, col}, or Null)
  hoveredPoint,     \* state.hoveredPoint
  canvasSize,       \* state.canvasSize
  artboardSize,     \* state.artboardSize
  subdivision,      \* state.subdivision
  animation,        \* state.animation
  canvasBackground, \* state.canvasBackground (opacity)
  effect,           \* state.effect
  noise,            \* state.noise
  listeners,        \* the listener Set, in insertion order
  history,          \* the undo history: Seq of grids
  historyIndex,     \* index of the current snapshot (0-based, -1 when empty)
  idSeed,           \* number of createDefaultGrid calls so far (source of fresh ids)
  dragRef,          \* MeshCanvas dragRef.current
  storeRev,         \* the store module the build links: "part_002", or the earlier "part_001"
  result,           \* math.ts called on its own: the function, its arguments, its value
  view,             \* MeshCanvas: its refs, the glass and noise canvases, the frame loop
  last,             \* observer: the handler that ran last and the store call it made
  notified,         \* observer: listeners invoked by the last handler, in order
  seen,             \* observer: the state each notify() of the last handler exposed
  thrown,           \* observer: the last handler ended by an exception
  snapped,          \* observer: snapshot() calls made by the last handler
  snaps,            \* observer: snapshot() calls in a row without a cut-off redo branch
  run,              \* observer: the current run of committed edits and undos
  budget            \* handlers the run may still execute (negative: no limit)

editorVars ==
  <<grid, heap, selectedPoint, hoveredPoint, canvasSize, artboardSize,
    subdivision, animation, canvasBackground, effect, noise, listeners,
    history, historyIndex, idSeed, dragRef, last, notified, seen, thrown,
    snapped, snaps, run, budget, storeRev>>
vars == <<editorVars, result, view>>

-----------------------------------------------------------------------------
(* Units and program constants *)

PosUnit == 100000
Cent == 100
PxScale == PosUnit \div Cent

MaxHistory == 50
HANDLE_STRENGTH == (15 * PosUnit) \div 100
HIT_RADIUS == 14

Null == [row |-> -1, col |-> -1]
NoDrag == [type |-> "none", row |-> -1, col |-> -1, handle |-> "none",
           lastX |-> 0, lastY |-> 0]

Vec(x, y) == [x |-> x, y |-> y]
Rgba(r, g, b, a) == [r |-> r, g |-> g, b |-> b, a |-> a]
Range(s) == {s[i] : i \in DOMAIN s}
MinOf(set) == CHOOSE x \in set : \A y \in set : x <= y
Abs(x) == IF x < 0 THEN -x ELSE x

\* Math.max(lo, Math.min(hi, v))
Clamp(lo, hi, v) == IF v > hi THEN (IF hi < lo THEN lo ELSE hi)
                    ELSE IF v < lo THEN lo ELSE v

\* Math.hypot, rounded down to the unit
RECURSIVE SqrtBetween(_, _, _)
SqrtBetween(n, lo, hi) ==
  IF lo >= hi THEN lo
  ELSE LET mid == (lo + hi + 1) \div 2
       IN IF mid * mid <= n THEN SqrtBetween(n, mid, hi)
          ELSE SqrtBetween(n, lo, mid - 1)
Hypot(x, y) == SqrtBetween(x * x + y * y, 0, Abs(x) + Abs(y))

-----------------------------------------------------------------------------
(* Patch evaluation and tessellation (math.ts).  A parameter u, v or t is    *)
(* the fraction n / d; the arithmetic is exact up to the final division,     *)
(* which rounds down to the unit.  Pixel coordinates: 1 px = PosUnit.        *)

Frac(n, d) == [n |-> n, d |-> d]

\* l*l*l*p0 + 3*l*l*t*p1 + 3*l*t*t*p2 + t*t*t*p3, times t.d^3
cubicBezier(p0, p1, p2, p3, t) ==
  LET l == t.d - t.n
  IN l * l * l * p0 + 3 * l * l * t.n * p1 + 3 * l * t.n * t.n * p2
       + t.n * t.n * t.n * p3

toPixel(v, w, h) == Vec(v.x * w, v.y * h)

\* faulty variant: the bilinear blend of the corners alone
evalPatchPositionRuled(patch, u, v, w, h) ==
  LET d  == u.d
      TL == toPixel(patch.tl.position, w, h)
      TR == toPixel(patch.tr.position, w, h)
      BL == toPixel(patch.bl.position, w, h)
      BR == toPixel(patch.br.position, w, h)
  IN Vec((TL.x * (d - u.n) * (d - v.n) + TR.x * u.n * (d - v.n)
            + BL.x * (d - u.n) * v.n + BR.x * u.n * v.n) \div (d * d),
         (TL.y * (d - u.n) * (d - v.n) + TR.y * u.n * (d - v.n)
            + BL.y * (d - u.n) * v.n + BR.y * u.n * v.n) \div (d * d))

\* faulty variant: the right curve is bent by the up handle of the top-right
\* corner and the down handle of the bottom-right one
evalPatchPositionMirrored(patch, u, v, w, h) ==
  LET d  == u.d
      TL == toPixel(patch.tl.position, w, h)
      TR == toPixel(patch.tr.position, w, h)
      BL == toPixel(patch.bl.position, w, h)
      BR == toPixel(patch.br.position, w, h)
      topCurveX == cubicBezier(TL.x, TL.x + patch.tl.handles.right.x * w,
                               TR.x + patch.tr.handles.left.x * w, TR.x, u)
      topCurveY == cubicBezier(TL.y, TL.y + patch.tl.handles.right.y * h,
                               TR.y + patch.tr.handles.left.y * h, TR.y, u)
      botCurveX == cubicBezier(BL.x, BL.x + patch.bl.handles.right.x * w,
                               BR.x + patch.br.handles.left.x * w, BR.x, u)
      botCurveY == cubicBezier(BL.y, BL.y + patch.bl.handles.right.y * h,
                               BR.y + patch.br.handles.left.y * h, BR.y, u)
      leftCurveX == cubicBezier(TL.x, TL.x + patch.tl.handles.down.x * w,
                                BL.x + patch.bl.handles.up.x * w, BL.x, v)
      leftCurveY == cubicBezier(TL.y, TL.y + patch.tl.handles.down.y * h,
                                BL.y + patch.bl.handles.up.y * h, BL.y, v)
      rightCurveX == cubicBezier(TR.x, TR.x + patch.tr.handles.up.x * w,
                                 BR.x + patch.br.handles.down.x * w, BR.x, v)
      rightCurveY == cubicBezier(TR.y, TR.y + patch.tr.handles.up.y * h,
                                 BR.y + patch.br.handles.down.y * h, BR.y, v)
      \* times d^2
      ruledX == TL.x * (d - u.n) * (d - v.n) + TR.x * u.n * (d - v.n)
                  + BL.x * (d - u.n) * v.n + BR.x * u.n * v.n
      ruledY == TL.y * (d - u.n) * (d - v.n) + TR.y * u.n * (d - v.n)
                  + BL.y * (d - u.n) * v.n + BR.y * u.n * v.n
      \* times d^4
      Lc_x == leftCurveX * (d - u.n) + rightCurveX * u.n
      Lc_y == leftCurveY * (d - u.n) + rightCurveY * u.n
      Ld_x == topCurveX * (d - v.n) + botCurveX * v.n
      Ld_y == topCurveY * (d - v.n) + botCurveY * v.n
  IN Vec((Lc_x + Ld_x - ruledX * d * d) \div (d * d * d * d),
         (Lc_y + Ld_y - ruledY * d * d) \div (d * d * d * d))

\* u and v have the same denominator d (col / subdivision, row / subdivision)
evalPatchPosition(patch, u, v, w, h) ==
  LET d  == u.d
      TL == toPixel(patch.tl.position, w, h)
      TR == toPixel(patch.tr.position, w, h)
      BL == toPixel(patch.bl.position, w, h)
      BR == toPixel(patch.br.position, w, h)
      topCurveX == cubicBezier(TL.x, TL.x + patch.tl.handles.right.x * w,
                               TR.x + patch.tr.handles.left.x * w, TR.x, u)
      topCurveY == cubicBezier(TL.y, TL.y + patch.tl.handles.right.y * h,
                               TR.y + patch.tr.handles.left.y * h, TR.y, u)
      botCurveX == cubicBezier(BL.x, BL.x + patch.bl.handles.right.x * w,
                               BR.x + patch.br.handles.left.x * w, BR.x, u)
      botCurveY == cubicBezier(BL.y, BL.y + patch.bl.handles.right.y * h,
                               BR.y + patch.br.handles.left.y * h, BR.y, u)
      leftCurveX == cubicBezier(TL.x, TL.x + patch.tl.handles.down.x * w,
                                BL.x + patch.bl.handles.up.x * w, BL.x, v)
      leftCurveY == cubicBezier(TL.y, TL.y + patch.tl.handles.down.y * h,
                                BL.y + patch.bl.handles.up.y * h, BL.y, v)
      rightCurveX == cubicBezier(TR.x, TR.x + patch.tr.handles.down.x * w,
                                 BR.x + patch.br.handles.up.x * w, BR.x, v)
      rightCurveY == cubicBezier(TR.y, TR.y + patch.tr.handles.down.y * h,
                                 BR.y + patch.br.handles.up.y * h, BR.y, v)
      \* times d^2
      ruledX == TL.x * (d - u.n) * (d - v.n) + TR.x * u.n * (d - v.n)
                  + BL.x * (d - u.n) * v.n + BR.x * u.n * v.n
      ruledY == TL.y * (d - u.n) * (d - v.n) + TR.y * u.n * (d - v.n)
                  + BL.y * (d - u.n) * v.n + BR.y * u.n * v.n
      \* times d^4
      Lc_x == leftCurveX * (d - u.n) + rightCurveX * u.n
      Lc_y == leftCurveY * (d - u.n) + rightCurveY * u.n
      Ld_x == topCurveX * (d - v.n) + botCurveX * v.n
      Ld_y == topCurveY * (d - v.n) + botCurveY * v.n
  IN Vec((Lc_x + Ld_x - ruledX * d * d) \div (d * d * d * d),
         (Lc_y + Ld_y - ruledY * d * d) \div (d * d * d * d))

evalPatchColor(patch, u, v) ==
  LET d == u.d
      w00 == (d - u.n) * (d - v.n)
      w10 == u.n * (d - v.n)
      w01 == (d - u.n) * v.n
      w11 == u.n * v.n
      mix(ch) == (w00 * patch.tl.color[ch] + w10 * patch.tr.color[ch]
                   + w01 * patch.bl.color[ch] + w11 * patch.br.color[ch]) \div (d * d)
  IN [r |-> mix("r"), g |-> mix("g"), b |-> mix("b"), a |-> mix("a")]

\* new Float32Array(n), new Uint16Array(n), new Uint32Array(n): n zeros.
\* `written` (observer) marks the entries that were assigned.
TypedArray(kind, length) ==
  [kind |-> kind, length |-> length, data |-> [i \in 0..(length - 1) |-> 0],
   written |-> [i \in 0..(length - 1) |-> FALSE]]

\* what an element of the array keeps of a number
Stored(kind, v) ==
  CASE kind = "Uint16Array" -> v % 65536
    [] kind = "Uint32Array" -> v
    [] OTHER -> v

\* arr[i] = v; an index outside the array is ignored
Write(arr, i, v) ==
  IF i \in 0..(arr.length - 1)
  THEN [arr EXCEPT !.data[i] = Stored(arr.kind, v), !.written[i] = TRUE]
  ELSE arr

\* faulty variant: 65536 vertices still get 16-bit indices
IndexArrayWide(totalVerts) ==
  IF totalVerts <= 65536 THEN "Uint16Array" ELSE "Uint32Array"

\* totalVerts <= 65535 ? Uint16Array : Uint32Array
\* faulty variant: 16-bit indices whatever the vertex count
IndexArrayNarrow(totalVerts) == "Uint16Array"

IndexArray(totalVerts) ==
  IF totalVerts <= 65535 THEN "Uint16Array" ELSE "Uint32Array"

\* the sizes tessellate computes and the arrays it allocates, by constructor
\* and length
tessellateSizes(rows, cols, subdiv) ==
  LET patchRows == rows - 1
      patchCols == cols - 1
      vertsPerPatchRow == subdiv + 1
      vertsPerPatchCol == subdiv + 1
      vertsPerPatch == vertsPerPatchRow * vertsPerPatchCol
      totalVerts == patchRows * patchCols * vertsPerPatch
      totalTris == patchRows * patchCols * subdiv * subdiv * 2
      totalIndices == totalTris * 3
  IN [patchRows |-> patchRows, patchCols |-> patchCols,
      vertsPerPatchRow |-> vertsPerPatchRow, vertsPerPatch |-> vertsPerPatch,
      totalVerts |-> totalVerts,
      positions |-> [kind |-> "Float32Array", length |-> totalVerts * 3],
      colors |-> [kind |-> "Float32Array", length |-> totalVerts * 4],
      indices |-> [kind |-> IndexArray(totalVerts), length |-> totalIndices]]

\* the vertex loops of one patch, from iteration n on (row = n div (S + 1),
\* col = n mod (S + 1)); n is the number of vertices the patch has so far
RECURSIVE PatchVertices(_, _, _, _)
PatchVertices(T, patch, g, subdiv) ==
  LET n == T.vi - T.baseVertex
  IN IF n >= (subdiv + 1) * (subdiv + 1) THEN T
     ELSE LET row == n \div (subdiv + 1)
              col == n % (subdiv + 1)
              u == Frac(col, subdiv)
              v == Frac(row, subdiv)
              pos == evalPatchPosition(patch, u, v, g.width, g.height)
              col4 == evalPatchColor(patch, u, v)
              vi == T.vi
              positions ==
                Write(Write(Write(T.positions,
                  vi * 3 + 0, (pos.x * 2) \div g.width - PosUnit),
                  vi * 3 + 1, 0 - ((pos.y * 2) \div g.height - PosUnit)),
                  vi * 3 + 2, 0)
              colors ==
                Write(Write(Write(Write(T.colors,
                  vi * 4 + 0, col4.r), vi * 4 + 1, col4.g),
                  vi * 4 + 2, col4.b), vi * 4 + 3, col4.a)
          IN PatchVertices([T EXCEPT !.positions = positions, !.colors = colors,
                                     !.vi = vi + 1],
                           patch, g, subdiv)

\* faulty variant: the second triangle is wound v1, v3, v2
QuadIndicesFlipped(v0, v1, v2, v3) == <<v0, v2, v1, v1, v3, v2>>

QuadIndices(v0, v1, v2, v3) == <<v0, v2, v1, v1, v2, v3>>

\* faulty variant: only the first triangle of a quad is emitted
WriteQuadHalf(indices, ii, q) ==
  Write(Write(Write(indices, ii, q[1]), ii + 1, q[2]), ii + 2, q[3])

\* indices[ii++] = ..., six times
WriteQuad(indices, ii, q) ==
  Write(Write(Write(Write(Write(Write(indices,
    ii, q[1]), ii + 1, q[2]), ii + 2, q[3]),
    ii + 3, q[4]), ii + 4, q[5]), ii + 5, q[6])

\* the index loops of one patch, from iteration n on (row = n div S,
\* col = n mod S); n is the number of quads the patch has so far, `first` the
\* value of ii when the patch began
RECURSIVE PatchIndices(_, _, _, _)
PatchIndices(T, vertsPerPatchRow, subdiv, first) ==
  LET n == (T.ii - first) \div 6
  IN IF n >= subdiv * subdiv THEN T
     ELSE LET row == n \div subdiv
              col == n % subdiv
              v0 == T.baseVertex + row * vertsPerPatchRow + col
              v1 == v0 + 1
              v2 == v0 + vertsPerPatchRow
              v3 == v2 + 1
          IN PatchIndices([T EXCEPT
                             !.indices = WriteQuad(@, T.ii, QuadIndices(v0, v1, v2, v3)),
                             !.ii = @ + 6],
                          vertsPerPatchRow, subdiv, first)

\* the patch loops, from patch k on (pr = k div patchCols, pc = k mod patchCols);
\* k is the number of patches done
RECURSIVE Patches(_, _, _, _)
Patches(T, g, subdiv, sz) ==
  LET k == T.baseVertex \div sz.vertsPerPatch
  IN IF k >= sz.patchRows * sz.patchCols THEN T
     ELSE LET pr == k \div sz.patchCols
              pc == k % sz.patchCols
              patch == [tl |-> g.points[pr + 1][pc + 1], tr |-> g.points[pr + 1][pc + 2],
                        bl |-> g.points[pr + 2][pc + 1], br |-> g.points[pr + 2][pc + 2]]
              T1 == PatchVertices(T, patch, g, subdiv)
              T2 == PatchIndices(T1, sz.vertsPerPatchRow, subdiv, T1.ii)
          IN Patches([T2 EXCEPT !.baseVertex = @ + sz.vertsPerPatch], g, subdiv, sz)

tessellate(g, subdiv) ==
  LET sz == tessellateSizes(g.rows, g.cols, subdiv)
      T0 == [positions |-> TypedArray(sz.positions.kind, sz.positions.length),
             colors |-> TypedArray(sz.colors.kind, sz.colors.length),
             indices |-> TypedArray(sz.indices.kind, sz.indices.length),
             vi |-> 0, ii |-> 0, baseVertex |-> 0]
      T == Patches(T0, g, subdiv, sz)
  IN [positions |-> T.positions, colors |-> T.colors, indices |-> T.indices,
      vertexCount |-> sz.totalVerts]

-----------------------------------------------------------------------------
(* The default grid *)

DEFAULT_COLORS ==
  << << Rgba(40, 20, 90, 100), Rgba(20, 50, 100, 100), Rgba(10, 80, 90, 100) >>,
     << Rgba(70, 10, 80, 100), Rgba(90, 30, 50, 100),  Rgba(30, 60, 90, 100) >>,
     << Rgba(90, 20, 40, 100), Rgba(100, 50, 20, 100), Rgba(80, 80, 30, 100) >> >>

\* makeId(): a random string; modelled as fresh per (factory call, row, col)
makeId(seed, r, c) == <<seed, r, c>>

\* createDefaultGrid, by value (rows of points); r, c are the code's 0-based indices
createDefaultGrid(rows, cols, width, height, seed) ==
  [rows |-> rows, cols |-> cols, width |-> width, height |-> height,
   points |->
     [r1 \in 1..rows |->
       [c1 \in 1..cols |->
         [id |-> makeId(seed, r1 - 1, c1 - 1),
          position |-> Vec(((c1 - 1) * PosUnit) \div (cols - 1),
                           ((r1 - 1) * PosUnit) \div (rows - 1)),
          color |-> DEFAULT_COLORS[((r1 - 1) % 3) + 1][((c1 - 1) % 3) + 1],
          handles |-> [left  |-> Vec(-HANDLE_STRENGTH, 0),
                       right |-> Vec(HANDLE_STRENGTH, 0),
                       up    |-> Vec(0, -HANDLE_STRENGTH),
                       down  |-> Vec(0, HANDLE_STRENGTH),
                       type  |-> "mirrorAngle"]]]]]

-----------------------------------------------------------------------------
(* Objects: row arrays in the heap *)

\* the grid's value: its row arrays read through the heap
Deref(h, g) == [g EXCEPT !.points = [i \in DOMAIN g.points |-> h[g.points[i]]]]

HistoryAddrs(hist) == UNION {Range(hist[j].points) : j \in DOMAIN hist}

\* the n smallest addresses outside `used`
RECURSIVE Smallest(_, _)
Smallest(set, n) ==
  IF n = 0 THEN <<>>
  ELSE LET m == MinOf(set) IN <<m>> \o Smallest(set \ {m}, n - 1)
FreshAddrs(used, n) == Smallest((0..(Cardinality(used) + n)) \ used, n)

\* a new grid object with new row arrays holding the rows of the value gv
NewGrid(h, used, gv) ==
  LET a == FreshAddrs(used, Len(gv.points))
      put == [x \in Range(a) |-> gv.points[CHOOSE i \in DOMAIN a : a[i] = x]]
  IN [grid |-> [gv EXCEPT !.points = a],
      heap |-> [x \in (DOMAIN h) \cup Range(a) |->
                  IF x \in Range(a) THEN put[x] ELSE h[x]]]

\* JSON.parse(JSON.stringify(g)): a structural copy that shares nothing with g.
\* All fields are finite numbers and strings, which JSON reproduces with equal
\* values, so the copy differs from the original in identity only.
\* faulty variant: no copy, the same grid object
JsonCloneShared(h, used, g) == [grid |-> g, heap |-> h]
JsonClone(h, used, g) == NewGrid(h, used, Deref(h, g))

-----------------------------------------------------------------------------
(* The store as one record, so that a handler is a composition of methods *)

St == [grid |-> grid, heap |-> heap, selectedPoint |-> selectedPoint,
       hoveredPoint |-> hoveredPoint, canvasSize |-> canvasSize,
       artboardSize |-> artboardSize, subdivision |-> subdivision, animation |-> animation,
       canvasBackground |-> canvasBackground, effect |-> effect, noise |-> noise,
       listeners |-> listeners, history |-> history,
       historyIndex |-> historyIndex, idSeed |-> idSeed,
       notified |-> <<>>, seen |-> <<>>, thrown |-> FALSE, snapped |-> 0]

\* what a listener reads when it "re-reads the full state"
View(S) == [grid |-> Deref(S.heap, S.grid), selectedPoint |-> S.selectedPoint,
            hoveredPoint |-> S.hoveredPoint, canvasSize |-> S.canvasSize,
            artboardSize |-> S.artboardSize, subdivision |-> S.subdivision, animation |-> S.animation,
            canvasBackground |-> S.canvasBackground, effect |-> S.effect,
            noise |-> S.noise]

InGrid(g, row, col) == row >= 0 /\ row < Len(g.points) /\ col >= 0 /\ col < g.cols

\* grid.points[row][col]
PointAt(S, row, col) == S.heap[S.grid.points[row + 1]][col + 1]

\* this.state.grid.points[row][col] = p  (assignment into the row array)
SetPoint(S, row, col, p) ==
  [S EXCEPT !.heap[S.grid.points[row + 1]][col + 1] = p]

Throw(S) == [S EXCEPT !.thrown = TRUE]

\* MeshCanvas's listener `tick` ends in drawOverlay(), which reads
\* grid.points[selectedPoint.row][selectedPoint.col] and its fields; the panels'
\* listeners only bump a counter
ListenerThrows(l, S) ==
  /\ l = "tick"
  /\ S.selectedPoint # Null
  /\ ~InGrid(S.grid, S.selectedPoint.row, S.selectedPoint.col)

\* notify(): listeners.forEach(fn => fn())
RECURSIVE notifyFrom(_, _)
notifyFrom(S, i) ==
  IF i > Len(S.listeners) THEN S
  ELSE LET l == S.listeners[i]
           S1 == [S EXCEPT !.notified = Append(@, l)]
       IN IF ListenerThrows(l, S) THEN Throw(S1) ELSE notifyFrom(S1, i + 1)
notify(S) == notifyFrom([S EXCEPT !.seen = Append(@, View(S))], 1)

\* subscribe(fn): Set.add
subscribe(S, l) ==
  IF l \in Range(S.listeners) THEN S ELSE [S EXCEPT !.listeners = Append(@, l)]

\* the returned unsubscribe: Set.delete
unsubscribe(S, l) ==
  [S EXCEPT !.listeners = SelectSeq(@, LAMBDA x : x # l)]

-----------------------------------------------------------------------------
(* History *)

\* faulty variant: the bound applied one entry early
HistoryOverflowEarly(len) == len >= MaxHistory
HistoryOverflow(len) == len > MaxHistory

\* snapshot() that drops the oldest entry and leaves the index as it was
snapshotIndexKept(S) ==
  LET kept == SubSeq(S.history, 1, S.historyIndex + 1)
      c == JsonClone(S.heap, Range(S.grid.points) \cup HistoryAddrs(kept), S.grid)
      pushed == Append(kept, c.grid)
  IN IF HistoryOverflow(Len(pushed))
     THEN [S EXCEPT !.heap = c.heap, !.history = Tail(pushed),
                    !.historyIndex = @ + 1, !.snapped = @ + 1]
     ELSE [S EXCEPT !.heap = c.heap, !.history = pushed,
                    !.historyIndex = @ + 1, !.snapped = @ + 1]

\* snapshot() that keeps the redo branch: the clone is pushed at the end
snapshotBranchKept(S) ==
  LET c == JsonClone(S.heap, Range(S.grid.points) \cup HistoryAddrs(S.history), S.grid)
      pushed == Append(S.history, c.grid)
  IN IF HistoryOverflow(Len(pushed))
     THEN [S EXCEPT !.heap = c.heap, !.history = Tail(pushed), !.snapped = @ + 1]
     ELSE [S EXCEPT !.heap = c.heap, !.history = pushed,
                    !.historyIndex = @ + 1, !.snapped = @ + 1]

\* snapshot(): clone, truncate the redo branch, push, bound.  (The clone is
\* allocated after the truncation here; only the addresses it gets differ.)
snapshot(S) ==
  LET kept == SubSeq(S.history, 1, S.historyIndex + 1)
      c == JsonClone(S.heap, Range(S.grid.points) \cup HistoryAddrs(kept), S.grid)
      pushed == Append(kept, c.grid)
      idx == S.historyIndex + 1
  IN IF HistoryOverflow(Len(pushed))
     THEN [S EXCEPT !.heap = c.heap, !.history = Tail(pushed),
                    !.historyIndex = idx - 1, !.snapped = @ + 1]
     ELSE [S EXCEPT !.heap = c.heap, !.history = pushed,
                    !.historyIndex = idx, !.snapped = @ + 1]

\* state.grid = JSON.parse(JSON.stringify(history[historyIndex]))
Restore(S, idx) ==
  LET c == JsonClone(S.heap, HistoryAddrs(S.history), S.history[idx + 1])
  IN [S EXCEPT !.historyIndex = idx, !.grid = c.grid, !.heap = c.heap]

\* faulty variant: the index steps back, the grid is not restored
undoKeepGrid(S) ==
  IF S.historyIndex > 0 THEN notify([S EXCEPT !.historyIndex = @ - 1]) ELSE S

\* faulty variant: stepping back also clears the selection
undoDeselect(S) ==
  IF S.historyIndex > 0
  THEN notify([Restore(S, S.historyIndex - 1) EXCEPT !.selectedPoint = Null]) ELSE S

undo(S) ==
  IF S.historyIndex > 0 THEN notify(Restore(S, S.historyIndex - 1)) ELSE S

redo(S) ==
  IF S.historyIndex < Len(S.history) - 1
  THEN notify(Restore(S, S.historyIndex + 1)) ELSE S

commitSnapshot(S) == snapshot(S)

\* this.snapshot() as the statement after a call that may have thrown
ThenSnapshot(S) == IF S.thrown THEN S ELSE snapshot(S)

-----------------------------------------------------------------------------
(* Store methods on the grid *)

setCanvasSize(S, width, height) ==
  notify([S EXCEPT !.canvasSize = [width |-> width, height |-> height],
                   !.grid = [@ EXCEPT !.width = width, !.height = height]])

selectPoint(S, row, col) ==
  notify([S EXCEPT !.selectedPoint =
            IF row = -1 \/ col = -1 THEN Null ELSE [row |-> row, col |-> col]])

hoverPoint(S, row, col) ==
  LET next == IF row = -1 \/ col = -1 THEN Null ELSE [row |-> row, col |-> col]
      S1 == [S EXCEPT !.hoveredPoint = next]
  IN IF S.hoveredPoint # next THEN notify(S1) ELSE S1

\* dx / grid.width in position units (dx in 1/Cent px)
Norm(d, size) == (d * PxScale) \div size

MinPos == 0 - (3 * PosUnit) \div 2
MaxPos == (5 * PosUnit) \div 2

\* the earlier store: Math.max(0, Math.min(1, ...))
movePointEarly(S, row, col, dx, dy) ==
  IF ~InGrid(S.grid, row, col) THEN Throw(S)
  ELSE LET p == PointAt(S, row, col)
           newPos == Vec(Clamp(0, PosUnit, p.position.x + Norm(dx, S.grid.width)),
                         Clamp(0, PosUnit, p.position.y + Norm(dy, S.grid.height)))
       IN notify(SetPoint(S, row, col, [p EXCEPT !.position = newPos]))

movePoint(S, row, col, dx, dy) ==
  IF ~InGrid(S.grid, row, col) THEN Throw(S)
  ELSE LET p == PointAt(S, row, col)
           newPos == Vec(Clamp(MinPos, MaxPos, p.position.x + Norm(dx, S.grid.width)),
                         Clamp(MinPos, MaxPos, p.position.y + Norm(dy, S.grid.height)))
       IN notify(SetPoint(S, row, col, [p EXCEPT !.position = newPos]))

Opposite(handle) ==
  CASE handle = "left" -> "right" [] handle = "right" -> "left"
    [] handle = "up" -> "down" [] handle = "down" -> "up"

\* faulty variant: the mirror is computed whatever the new length
MirrorGuardNone(nx, ny) == TRUE

\* newLen > 0.0001, decided on the squares so that no rounding enters
MirrorEps == PosUnit \div 10000
MirrorGuard(nx, ny) == nx * nx + ny * ny > MirrorEps * MirrorEps

\* faulty variant: the sign is lost
MirrorParallel(nx, ny, len) ==
  LET newLen == Hypot(nx, ny)
  IN Vec((nx * len) \div newLen, (ny * len) \div newLen)

\* the quotient 0 / 0: a value that is no number, kept apart from every
\* coordinate the store can compute
NaN == 0 - 1000 * PosUnit

\* { x: (-nx / newLen) * len, y: (-ny / newLen) * len }
Mirror(nx, ny, len) ==
  LET newLen == Hypot(nx, ny)
  IN IF newLen = 0 THEN Vec(NaN, NaN)
     ELSE Vec(((-nx) * len) \div newLen, ((-ny) * len) \div newLen)

moveHandle(S, row, col, handle, dx, dy) ==
  IF ~InGrid(S.grid, row, col) THEN Throw(S)
  ELSE LET p == PointAt(S, row, col)
           nx == p.handles[handle].x + Norm(dx, S.grid.width)
           ny == p.handles[handle].y + Norm(dy, S.grid.height)
           edited == [p.handles EXCEPT ![handle] = Vec(nx, ny)]
           opp == Opposite(handle)
           len == Hypot(p.handles[opp].x, p.handles[opp].y)
           newHandles ==
             IF p.handles.type = "mirrorAngle" /\ MirrorGuard(nx, ny)
             THEN [edited EXCEPT ![opp] = Mirror(nx, ny, len)]
             ELSE edited
       IN notify(SetPoint(S, row, col, [p EXCEPT !.handles = newHandles]))

\* an array slot that was never assigned
Hole == [hole |-> TRUE]

\* points[row] is undefined outside the grid and reading [col] of it throws; a
\* col beyond the row reads undefined, { ...undefined, color } is { color }, and
\* the assignment lengthens the row array
setPointColor(S, row, col, color) ==
  IF row < 0 \/ row >= Len(S.grid.points) THEN Throw(S)
  ELSE LET a == S.grid.points[row + 1]
           n == Len(S.heap[a])
       IN IF col < 0 THEN ThenSnapshot(notify(S))
          ELSE IF col >= n
            THEN ThenSnapshot(notify(
                   [S EXCEPT !.heap[a] =
                      @ \o [i \in 1..(col - n) |-> Hole] \o <<[color |-> color]>>]))
          ELSE LET p == PointAt(S, row, col)
               IN ThenSnapshot(notify(SetPoint(S, row, col,
                                               [p EXCEPT !.color = color])))

setPointOpacity(S, row, col, opacity) ==
  IF ~InGrid(S.grid, row, col) THEN Throw(S)
  ELSE LET p == PointAt(S, row, col)
           a == Clamp(0, Cent, opacity)
       IN notify(SetPoint(S, row, col, [p EXCEPT !.color.a = a]))

setHandleType(S, row, col, type) ==
  IF ~InGrid(S.grid, row, col) THEN Throw(S)
  ELSE LET p == PointAt(S, row, col)
       IN ThenSnapshot(notify(SetPoint(S, row, col,
                                       [p EXCEPT !.handles.type = type])))

setSubdivision(S, s) == notify([S EXCEPT !.subdivision = s])

\* this.state.grid = <a new grid object with new row arrays>
ReplaceGrid(S, gv) ==
  LET n == NewGrid(S.heap, HistoryAddrs(S.history), gv)
  IN [S EXCEPT !.grid = n.grid, !.heap = n.heap]

\* faulty variant: the new grid takes the extent of the old grid
resetGridKeepExtent(S, rows, cols) ==
  LET gv == createDefaultGrid(rows, cols, S.grid.width, S.grid.height, S.idSeed)
      S1 == [ReplaceGrid(S, gv) EXCEPT !.idSeed = @ + 1, !.selectedPoint = Null]
  IN notify(snapshot(S1))

resetGrid(S, rows, cols) ==
  LET gv == createDefaultGrid(rows, cols, S.canvasSize.width, S.canvasSize.height,
                              S.idSeed)
      S1 == [ReplaceGrid(S, gv) EXCEPT !.idSeed = @ + 1, !.selectedPoint = Null]
  IN notify(snapshot(S1))

\* faulty variant: the points are made anew on the lattice
RecolorFresh(gv, f) ==
  LET fresh == createDefaultGrid(gv.rows, gv.cols, gv.width, gv.height, 0)
  IN [gv EXCEPT !.points =
        [r1 \in DOMAIN gv.points |->
           [c1 \in DOMAIN gv.points[r1] |->
              [fresh.points[r1][c1] EXCEPT !.id = gv.points[r1][c1].id,
                                           !.color = f[r1 - 1][c1 - 1]]]]]

\* points.map((row, r) => row.map((p, c) => ({...p, color: f[r][c]})))
Recolor(gv, f) ==
  [gv EXCEPT !.points =
     [r1 \in DOMAIN gv.points |->
        [c1 \in DOMAIN gv.points[r1] |->
           [gv.points[r1][c1] EXCEPT !.color = f[r1 - 1][c1 - 1]]]]]

\* faulty variant: only the points under the matrix are kept
applyPresetShaped(S, colors) ==
  LET g == Deref(S.heap, S.grid)
      gv == [g EXCEPT !.points =
               [r \in 1..Len(colors) |->
                  [c \in 1..Len(colors[r]) |->
                     [g.points[r][c] EXCEPT !.color = colors[r][c]]]]]
      S1 == ReplaceGrid(S, gv)
  IN notify(snapshot([S1 EXCEPT !.selectedPoint = Null]))

applyPreset(S, colors) ==
  LET f == [r \in 0..(S.grid.rows - 1) |->
             [c \in 0..(S.grid.cols - 1) |->
                LET row == colors[(r % Len(colors)) + 1]
                IN row[(c % Len(row)) + 1]]]
      S1 == ReplaceGrid(S, Recolor(Deref(S.heap, S.grid), f))
  IN notify(snapshot([S1 EXCEPT !.selectedPoint = Null]))

\* `draw` stands for the Math.random() results: draw[r][c] = <<r, g, b>> of point (r, c)
randomize(S, draw) ==
  LET f == [r \in 0..(S.grid.rows - 1) |->
             [c \in 0..(S.grid.cols - 1) |->
                LET t == draw[r + 1][c + 1] IN Rgba(t[1], t[2], t[3], Cent)]]
      S1 == ReplaceGrid(S, Recolor(Deref(S.heap, S.grid), f))
  IN notify(snapshot([S1 EXCEPT !.selectedPoint = Null]))

-----------------------------------------------------------------------------
(* MeshCanvas: hit testing *)

\* position (normalized units) times a canvas extent, in 1/Cent px
ToPx(u, extent) == (u * extent) \div PxScale

\* Math.hypot(ax - bx, ay - by) < HIT_RADIUS
Near(ax, ay, bx, by) ==
  LET r == HIT_RADIUS * Cent
      ex == Abs(ax - bx)
      ey == Abs(ay - by)
  IN ex < r /\ ey < r /\ ex * ex + ey * ey < r * r

DistSq(ax, ay, bx, by) == (ax - bx) * (ax - bx) + (ay - by) * (ay - by)

HandleNames == <<"left", "right", "up", "down">>

NoHit == [type |-> "none", row |-> -1, col |-> -1, handle |-> "none"]

\* getHitPoint(cx, cy): a handle of the selected point first, else the nearest
\* point within HIT_RADIUS (the first one in row-major order among equals)
getHitPoint(S, cx, cy) ==
  LET W == S.canvasSize.width
      H == S.canvasSize.height
      sel == S.selectedPoint
      px(p) == ToPx(p.position.x, W)
      py(p) == ToPx(p.position.y, H)
      hitH == IF sel = Null THEN {}
              ELSE LET p == PointAt(S, sel.row, sel.col)
                   IN {i \in 1..4 :
                         Near(cx, cy, ToPx(p.position.x + p.handles[HandleNames[i]].x, W),
                                      ToPx(p.position.y + p.handles[HandleNames[i]].y, H))}
      cand == {rc \in (0..(S.grid.rows - 1)) \X (0..(S.grid.cols - 1)) :
                 LET p == PointAt(S, rc[1], rc[2]) IN Near(cx, cy, px(p), py(p))}
      d(rc) == LET p == PointAt(S, rc[1], rc[2]) IN DistSq(cx, cy, px(p), py(p))
      before(a, b) == a[1] < b[1] \/ (a[1] = b[1] /\ a[2] < b[2])
      best == CHOOSE rc \in cand :
                \A o \in cand : d(rc) < d(o) \/ (d(rc) = d(o) /\ (rc = o \/ before(rc, o)))
  IN IF sel # Null /\ ~InGrid(S.grid, sel.row, sel.col)
       THEN [NoHit EXCEPT !.type = "throw"]
     ELSE IF hitH # {}
       THEN [type |-> "handle", row |-> sel.row, col |-> sel.col,
             handle |-> HandleNames[MinOf(hitH)]]
     ELSE IF cand # {}
       THEN [type |-> "point", row |-> best[1], col |-> best[2], handle |-> "none"]
     ELSE NoHit

-----------------------------------------------------------------------------
(* Settings: animation, canvas background, effect, noise.  Numbers in 1/Cent; *)
(* colours of the settings in 1/255 per channel.                             *)

\* { r: 0x.. / 255, g: 0x.. / 255, b: 0x.. / 255, a: 1 }
Byte(r, g, b) == [r |-> r, g |-> g, b |-> b, a |-> 255]

\* faulty variant: one range for every style
animSpeedBoundsFlat(style) == [min |-> Cent \div 10, max |-> 4 * Cent]

animSpeedBounds(style) ==
  IF style = "smooth" THEN [min |-> 2 * Cent, max |-> 6 * Cent]
  ELSE [min |-> Cent \div 10, max |-> 4 * Cent]

animStrengthBounds(style) ==
  IF style = "smooth" THEN [min |-> Cent \div 2, max |-> 2 * Cent]
  ELSE [min |-> 0, max |-> Cent]

\* variant: the style alone is stored, speed and strength stay
setAnimationStyleOnly(S, style) == notify([S EXCEPT !.animation.style = style])

setAnimationStyle(S, style) ==
  LET speedBounds == animSpeedBounds(style)
      strengthBounds == animStrengthBounds(style)
  IN notify([S EXCEPT
       !.animation = [style |-> style,
                      speed |-> Clamp(speedBounds.min, speedBounds.max, @.speed),
                      strength |-> Clamp(strengthBounds.min, strengthBounds.max,
                                         @.strength)]])

setAnimationSpeed(S, speed) ==
  LET b == animSpeedBounds(S.animation.style)
  IN notify([S EXCEPT !.animation.speed = Clamp(b.min, b.max, speed)])

setAnimationStrength(S, strength) ==
  LET b == animStrengthBounds(S.animation.style)
  IN notify([S EXCEPT !.animation.strength = Clamp(b.min, b.max, strength)])

setCanvasBackgroundColor(S, color) ==
  notify([S EXCEPT !.canvasBackground.color = [color EXCEPT !.a = 255]])

setCanvasBackgroundOpacity(S, opacity) ==
  notify([S EXCEPT !.canvasBackground.opacity = Clamp(0, Cent, opacity)])

\* the preset table of setEffectType: scale and rotate per type
EffectTypes == {"wavy", "zigzag", "zigzag3d", "circle", "isometric", "polka",
                "lines", "boxes", "triangle", "rhombus"}

presets(type) ==
  IF type \in {"zigzag", "zigzag3d", "isometric", "boxes"}
  THEN [scale |-> 20 * Cent, rotate |-> 0]
  ELSE [scale |-> 10 * Cent, rotate |-> 0]

\* a type without an entry in the preset table ("hexagon", "squares",
\* "pixelation", "glass"): the type is assigned, then reading p.scale of the
\* missing entry throws
setEffectType(S, type) ==
  IF S.effect.type = type THEN notify(S)
  ELSE IF type \notin EffectTypes \cup {"none"}
    THEN Throw([S EXCEPT !.effect.type = type])
  ELSE IF type # "none"
    THEN notify([S EXCEPT !.effect =
           [type |-> type, color |-> Byte(229, 229, 247),
            lineColor |-> Byte(68, 76, 247), opacity |-> (8 * Cent) \div 10,
            scale |-> presets(type).scale, rotate |-> presets(type).rotate]])
  ELSE notify([S EXCEPT !.effect.type = type])

setEffectColor(S, color) ==
  notify([S EXCEPT !.effect.color = [color EXCEPT !.a = 255]])

setEffectLineColor(S, color) ==
  notify([S EXCEPT !.effect.lineColor = [color EXCEPT !.a = 255]])

setEffectOpacity(S, opacity) ==
  notify([S EXCEPT !.effect.opacity = Clamp(0, Cent, opacity)])

\* faulty variant: no rounding
RoundNone(v) == v

\* Math.round of a number in 1/Cent: the nearest integer, halves upward
Round(v) == ((v + Cent \div 2) \div Cent) * Cent

setEffectScale(S, scale) ==
  notify([S EXCEPT !.effect.scale = Round(Clamp(4 * Cent, 128 * Cent, scale))])

setEffectRotate(S, rotate) ==
  notify([S EXCEPT !.effect.rotate = Clamp(-180 * Cent, 180 * Cent, rotate)])

setNoiseAnimated(S, animated) == notify([S EXCEPT !.noise.animated = animated])

setNoiseEnabled(S, enabled) == notify([S EXCEPT !.noise.enabled = enabled])

setNoiseIntensity(S, intensity) ==
  notify([S EXCEPT !.noise.intensity = Clamp(0, Cent, intensity)])

setNoiseColor(S, color) ==
  notify([S EXCEPT !.noise.color = [color EXCEPT !.a = 255]])

setNoiseSize(S, size) ==
  notify([S EXCEPT !.noise.size = Clamp(Cent \div 10, 4 * Cent, size)])

setNoiseSpeed(S, speed) ==
  notify([S EXCEPT !.noise.speed = Clamp(0, (3 * Cent) \div 2, speed)])

setArtboardSize(S, width, height) ==
  notify([S EXCEPT !.artboardSize =
            [width |-> Round(Clamp(128 * Cent, 8192 * Cent, width)) \div Cent,
             height |-> Round(Clamp(128 * Cent, 8192 * Cent, height)) \div Cent]])

-----------------------------------------------------------------------------
(* Observers *)

Call(handler, op, row, col, handle, arg) ==
  [handler |-> handler, op |-> op, row |-> row, col |-> col, handle |-> handle,
   arg |-> arg, before |-> <<>>]

\* what the call started from, for the calls whose effect is stated against it:
\* the grid before an undo() that stepped back (kept through the redo() that
\* follows it at once), the animation before setAnimationStyle, the point before
\* moveHandle
Before(c) ==
  IF c.op = "undo" /\ historyIndex > 0 THEN <<Deref(heap, grid)>>
  ELSE IF c.op = "redo" /\ last.op = "undo" THEN last.before
  ELSE IF c.op = "setAnimationStyle" THEN <<animation>>
  ELSE IF c.op = "moveHandle" /\ InGrid(grid, c.row, c.col)
    THEN <<PointAt(St, c.row, c.col)>>
  ELSE <<>>

EditOps == {"movePoint", "moveHandle", "setPointColor", "setPointOpacity",
            "setHandleType"}

NoRun == [origs |-> <<>>, pending |-> <<>>, undos |-> 0, valid |-> FALSE]

\* The run of committed edits.  An edit is committed by the snapshot() that
\* follows it (in the same call for setPointColor and setHandleType, at the end of
\* the gesture otherwise).  `origs` holds, for each committed edit of the run, the
\* grid before the edit and whether that grid equalled the current snapshot;
\* `undos` counts the undo() calls that followed the run.  Selection and hover
\* leave the run alone; any other call ends it.
NextRun(S, c) ==
  LET before == [grid |-> Deref(heap, grid),
                 clean |-> Deref(heap, grid) = Deref(heap, history[historyIndex + 1])]
      base == IF run.valid /\ run.undos = 0 THEN run
              ELSE [NoRun EXCEPT !.valid = TRUE]
      pend == IF base.pending = <<>> THEN <<before>> ELSE base.pending
      keep(q) == IF Len(q) >= MaxHistory THEN Tail(q) ELSE q
  IN IF S.thrown THEN NoRun
     ELSE IF c.op \in EditOps
       THEN IF S.snapped = 1
              THEN [base EXCEPT !.origs = Append(keep(@), pend[1]), !.pending = <<>>]
              ELSE [base EXCEPT !.pending = pend]
     ELSE IF c.op = "commitSnapshot"
       THEN IF base.pending = <<>> THEN NoRun
            ELSE [base EXCEPT !.origs = Append(keep(@), base.pending[1]),
                              !.pending = <<>>]
     ELSE IF c.op = "undo"
       THEN IF run.valid /\ run.pending = <<>> /\ run.origs # <<>>
              THEN [run EXCEPT !.undos = @ + 1]
              ELSE NoRun
     ELSE IF c.op \in {"selectPoint", "hoverPoint", "none"} THEN run
     ELSE NoRun

\* snapshot() calls in a row: a snapshot() that cuts redo entries off starts
\* the count again
NextSnaps(S, c) ==
  IF S.snapped = 0 THEN snaps
  ELSE IF historyIndex + 1 < Len(history) THEN S.snapped
  ELSE snaps + S.snapped

\* the row arrays still referenced
Live(S) == Range(S.grid.points) \cup HistoryAddrs(S.history)

\* the handler returns: the store's fields as the handler left them, the
\* canvases as v
FinishView(S, c, v) ==
  /\ budget # 0
  /\ budget' = IF budget > 0 THEN budget - 1 ELSE budget
  /\ grid' = S.grid
  /\ heap' = [a \in Live(S) |-> S.heap[a]]
  /\ selectedPoint' = S.selectedPoint
  /\ hoveredPoint' = S.hoveredPoint
  /\ canvasSize' = S.canvasSize
  /\ artboardSize' = S.artboardSize
  /\ subdivision' = S.subdivision
  /\ animation' = S.animation
  /\ canvasBackground' = S.canvasBackground
  /\ effect' = S.effect
  /\ noise' = S.noise
  /\ listeners' = S.listeners
  /\ history' = S.history
  /\ historyIndex' = S.historyIndex
  /\ idSeed' = S.idSeed
  /\ last' = [c EXCEPT !.before = Before(c)]
  /\ notified' = S.notified
  /\ seen' = S.seen
  /\ thrown' = S.thrown
  /\ snapped' = S.snapped
  /\ snaps' = NextSnaps(S, c)
  /\ run' = NextRun(S, c)
  /\ result' = result
  /\ storeRev' = storeRev
  /\ view' = v

\* a handler that leaves the canvases and the frame loop alone
Finish(S, c) == FinishView(S, c, view)

-----------------------------------------------------------------------------
(* MeshCanvas: the canvases and the frame loop.  Sizes in px, times in ms.   *)
(* A canvas is modelled by its size and by the pass that painted it last.    *)

\* a ref that is still null
Absent == [width |-> -1, height |-> -1]

\* A graphics resource a MeshRenderer created: the WebGL renderer, a material,
\* a geometry (id 0: the background quad's PlaneGeometry)
Resource(kind, id) == [kind |-> kind, id |-> id]
NoGeometry == Resource("null", 0)
NoMesh == [kind |-> "null", geometry |-> NoGeometry]

\* new MeshRenderer(canvas).  `live` holds the resources created and not yet
\* released, `scene` the meshes of the scene, `created` counts the geometries
\* update() made.  The renderer of part_003 has the mesh material only; the
\* renderers of mesh/renderer.ts also make a background quad (PlaneGeometry,
\* bgMaterial, bgMesh) and add it to the scene.
newMeshRenderer(rev) ==
  LET own == [rev |-> rev, mesh |-> NoMesh, geometry |-> NoGeometry,
              attributes |-> <<>>, subdivision |-> 20, created |-> 0,
              live |-> {Resource("WebGLRenderer", 0), Resource("material", 0)},
              scene |-> {}]
  IN IF rev = "part_003" THEN own
     ELSE [own EXCEPT !.live = @ \cup {Resource("bgMaterial", 0),
                                        Resource("PlaneGeometry", 0)},
                      !.scene = {[kind |-> "bgMesh",
                                  geometry |-> Resource("PlaneGeometry", 0)]}]

\* MeshRenderer.update(grid): tessellate, remove the previous mesh and dispose
\* its geometry, make the new geometry and mesh
rendererUpdate(R, g) ==
  LET t == tessellate(g, R.subdivision)
      R1 == IF R.mesh # NoMesh
              THEN [R EXCEPT !.scene = @ \ {R.mesh}, !.live = @ \ {R.geometry}]
              ELSE R
      geo == Resource("BufferGeometry", R.created + 1)
      mesh == [kind |-> "mesh", geometry |-> geo]
  IN [R1 EXCEPT !.attributes = <<t>>, !.geometry = geo, !.created = @ + 1,
                !.mesh = mesh, !.live = @ \cup {geo}, !.scene = @ \cup {mesh}]

\* MeshRenderer.dispose(): the geometry if there is one, the mesh material, the
\* background material where there is one, the WebGL renderer
rendererDispose(R) ==
  [R EXCEPT !.live = @ \ ({R.geometry, Resource("material", 0),
                           Resource("WebGLRenderer", 0)}
                          \cup IF R.rev = "part_003" THEN {}
                               ELSE {Resource("bgMaterial", 0)})]

\* the component after mount: the glass and noise canvases at the size a canvas
\* element starts with, no glass resources, no capture or scratch canvas, the
\* first frame requested (rafId = requestAnimationFrame(frame)).  `captured` is
\* the time of the base frame the capture canvas holds; `attempts` counts the
\* acquisitions of the glass resources asked of the host, `failed` tells that
\* one of them was refused; `log` lists the passes of the last frame.
InitView ==
  [glassGL |-> "null", glassCapture |-> Absent,
   glassCanvas |-> [width |-> 300, height |-> 150, pixels |-> "clear"],
   noiseCanvas |-> [width |-> 300, height |-> 150, pixels |-> "clear", seed |-> 0],
   noiseScratch |-> Absent, reducedMotion |-> FALSE,
   rendered |-> [animation |-> [style |-> "static", speed |-> 100, strength |-> 50],
                 now |-> -1],
   captured |-> -1, attempts |-> 0, failed |-> FALSE,
   renderer |-> newMeshRenderer("part_003"), disposed |-> FALSE,
   rafId |-> 1, pending |-> TRUE, log |-> <<>>, threw |-> FALSE]

\* the ResizeObserver callback, after store.setCanvasSize: assigning a canvas's
\* width or height clears it
resizeCanvases(v, w, h) ==
  [v EXCEPT !.noiseCanvas = [@ EXCEPT !.width = w, !.height = h, !.pixels = "clear"],
            !.glassCanvas = [width |-> w, height |-> h, pixels |-> "clear"]]

\* what the host answers when the glass resources are requested: no WebGL
\* context, a shader that does not compile, no program or one that does not
\* link, no buffer, no texture, or all of them
GlassHosts == {"no context", "no shader", "no program", "no buffer", "no texture",
               "ok"}

\* initGlassGL(): the cached resources, or one acquisition; a failure caches
\* nothing
initGlassGL(v, host) ==
  IF v.glassGL # "null" THEN [view |-> v, resources |-> v.glassGL]
  ELSE IF host # "ok"
    THEN [view |-> [v EXCEPT !.attempts = @ + 1, !.failed = TRUE,
                             !.log = Append(@, <<"acquire", host>>)],
          resources |-> "null"]
  ELSE [view |-> [v EXCEPT !.glassGL = "resources", !.attempts = @ + 1,
                           !.log = Append(@, <<"acquire", host>>)],
        resources |-> "resources"]

\* drawGlassOverlay() without the test of what initGlassGL() returned: the
\* resources are destructured at once
drawGlassOverlayUnchecked(v, S, host) ==
  LET got == initGlassGL(v, host)
      v1 == [got.view EXCEPT !.log = Append(@, <<"initGlassGL", got.resources>>)]
  IN IF v.glassCanvas.width <= 0 \/ v.glassCanvas.height <= 0 \/ S.effect.type # "glass"
       THEN [v EXCEPT !.log = Append(@, <<"drawGlassOverlay", "skip">>)]
     ELSE [v1 EXCEPT !.threw = TRUE, !.log = Append(@, <<"drawGlassOverlay", "throw">>)]

\* drawGlassOverlay().  With resources the pass captures the base canvas and
\* then reads state.glass for the uniforms: a store state without a glass
\* field (the stores of part_001 and part_002 have none) makes glass.cells
\* throw, before the overlay is painted.
drawGlassOverlay(v, S, host) ==
  LET W == v.glassCanvas.width
      H == v.glassCanvas.height
  IN IF W <= 0 \/ H <= 0 THEN [v EXCEPT !.log = Append(@, <<"drawGlassOverlay", "skip">>)]
     ELSE IF S.effect.type # "glass"
       THEN [v EXCEPT !.glassCanvas.pixels = "clear",
                      !.log = Append(@, <<"drawGlassOverlay", "clear">>)]
     ELSE LET got == initGlassGL(v, host)
              v1 == [got.view EXCEPT !.log = Append(@, <<"initGlassGL", got.resources>>)]
          IN IF got.resources = "null"
               THEN [v1 EXCEPT !.glassCanvas.pixels = "clear",
                               !.log = Append(@, <<"drawGlassOverlay", "clear">>)]
             ELSE LET v2 == [v1 EXCEPT !.glassCapture = [width |-> W, height |-> H],
                                       !.captured = v.rendered.now,
                                       !.log = Append(@, <<"capture", "base">>)]
                  IN IF "glass" \notin DOMAIN S
                       THEN [v2 EXCEPT !.threw = TRUE,
                                       !.log = Append(@, <<"drawGlassOverlay", "throw">>)]
                     ELSE [v2 EXCEPT !.glassCanvas.pixels = "glass",
                                     !.log = Append(@, <<"drawGlassOverlay", "glass">>)]

\* drawNoiseOverlay(tSec), tSec = now / 1000: cleared when the grain is off or
\* its intensity is at most 0.0001, else painted from the scratch canvas of
\* floor(W / size) x floor(H / size) cells with the frame index as seed
drawNoiseOverlay(v, S, now) ==
  LET W == v.noiseCanvas.width
      H == v.noiseCanvas.height
      size == IF S.noise.size < Cent \div 2 THEN Cent \div 2 ELSE S.noise.size
      speed == IF S.noise.speed < 0 THEN 0 ELSE S.noise.speed
      downW == IF (W * Cent) \div size < 1 THEN 1 ELSE (W * Cent) \div size
      downH == IF (H * Cent) \div size < 1 THEN 1 ELSE (H * Cent) \div size
      seed0 == IF S.noise.animated THEN (now * speed * 60) \div (1000 * Cent) ELSE 0
  IN IF W <= 0 \/ H <= 0 THEN [v EXCEPT !.log = Append(@, <<"drawNoiseOverlay", "skip">>)]
     ELSE IF ~S.noise.enabled \/ S.noise.intensity <= 0
       THEN [v EXCEPT !.noiseCanvas.pixels = "clear",
                      !.log = Append(@, <<"drawNoiseOverlay", "clear">>)]
     ELSE [v EXCEPT !.noiseScratch = [width |-> downW, height |-> downH],
                    !.noiseCanvas.pixels = "grain", !.noiseCanvas.seed = seed0,
                    !.log = Append(@, <<"drawNoiseOverlay", "grain">>)]

\* frame(now) with the glass pass run before the base render
frameGlassFirst(now, host) ==
  /\ view.pending
  /\ now >= view.rendered.now
  /\ LET anim == IF view.reducedMotion
                   THEN [animation EXCEPT !.style = "static", !.strength = 0]
                   ELSE animation
         v0 == drawGlassOverlay([view EXCEPT !.pending = FALSE, !.threw = FALSE,
                                             !.log = <<>>], St, host)
         v1 == IF v0.threw THEN v0
               ELSE [v0 EXCEPT !.rendered = [animation |-> anim, now |-> now],
                               !.log = Append(@, <<"render", "base">>)]
         v2 == IF v1.threw THEN v1 ELSE drawNoiseOverlay(v1, St, now)
         v3 == IF v2.threw THEN v2
               ELSE [v2 EXCEPT !.rafId = @ + 1, !.pending = TRUE,
                               !.log = Append(@, <<"requestAnimationFrame", "frame">>)]
     IN FinishView(IF v3.threw THEN Throw(St) ELSE St,
                   Call("frame", "none", -1, -1, "none", now), v3)
  /\ UNCHANGED dragRef

\* frame(now), the requestAnimationFrame callback: the base render, the glass
\* pass, the grain pass, then the request for the next frame; an exception
\* leaves the rest undone
frame(now, host) ==
  /\ view.pending
  /\ now >= view.rendered.now
  /\ LET anim == IF view.reducedMotion
                   THEN [animation EXCEPT !.style = "static", !.strength = 0]
                   ELSE animation
         v0 == [view EXCEPT !.pending = FALSE, !.threw = FALSE,
                            !.rendered = [animation |-> anim, now |-> now],
                            !.log = << <<"render", "base">> >>]
         v1 == drawGlassOverlay(v0, St, host)
         v2 == IF v1.threw THEN v1 ELSE drawNoiseOverlay(v1, St, now)
         v3 == IF v2.threw THEN v2
               ELSE [v2 EXCEPT !.rafId = @ + 1, !.pending = TRUE,
                               !.log = Append(@, <<"requestAnimationFrame", "frame">>)]
     IN FinishView(IF v3.threw THEN Throw(St) ELSE St,
                   Call("frame", "none", -1, -1, "none", now), v3)
  /\ UNCHANGED dragRef

\* renderer.subdivision = n; renderer.update(g), as tick does with the store's
\* subdivision and grid; the cleanup unsubscribes tick before it disposes of
\* the renderer
callRendererUpdate(g, n) ==
  /\ ~view.disposed
  /\ FinishView(St, Call("update", "none", -1, -1, "none", n),
                [view EXCEPT !.renderer =
                   rendererUpdate([@ EXCEPT !.subdivision = n], g)])
  /\ UNCHANGED dragRef

\* renderer.dispose(), once per instance
callRendererDispose ==
  /\ ~view.disposed
  /\ FinishView(St, Call("dispose", "none", -1, -1, "none", 0),
                [view EXCEPT !.renderer = rendererDispose(@), !.disposed = TRUE])
  /\ UNCHANGED dragRef

\* the change listener of the (prefers-reduced-motion: reduce) media query
onMotionChange(matches) ==
  /\ FinishView(St, Call("onMotionChange", "none", -1, -1, "none", 0),
                [view EXCEPT !.reducedMotion = matches])
  /\ UNCHANGED dragRef

-----------------------------------------------------------------------------
(* MeshCanvas: pointer and keyboard handlers (coordinates in 1/Cent px) *)

onPointerDown(x, y) ==
  LET hit == getHitPoint(St, x, y)
  IN CASE hit.type = "throw" ->
            Finish(Throw(St), Call("onPointerDown", "none", -1, -1, "none", 0))
             /\ UNCHANGED dragRef
       [] hit.type = "none" ->
            Finish(selectPoint(St, -1, -1),
                   Call("onPointerDown", "selectPoint", -1, -1, "none", 0))
             /\ UNCHANGED dragRef
       [] hit.type = "point" ->
            LET S == selectPoint(St, hit.row, hit.col)
            IN /\ Finish(S, Call("onPointerDown", "selectPoint", hit.row, hit.col,
                                 "none", 0))
               /\ dragRef' = IF S.thrown THEN dragRef
                             ELSE [type |-> "point", row |-> hit.row, col |-> hit.col,
                                   handle |-> "none", lastX |-> x, lastY |-> y]
       [] hit.type = "handle" ->
            /\ Finish(St, Call("onPointerDown", "none", hit.row, hit.col, hit.handle, 0))
            /\ dragRef' = [type |-> "handle", row |-> hit.row, col |-> hit.col,
                           handle |-> hit.handle, lastX |-> x, lastY |-> y]

onPointerMove(x, y) ==
  IF dragRef = NoDrag
  THEN LET hit == getHitPoint(St, x, y)
       IN /\ UNCHANGED dragRef
          /\ CASE hit.type = "throw" ->
                    Finish(Throw(St), Call("onPointerMove", "none", -1, -1, "none", 0))
               [] hit.type = "point" ->
                    Finish(hoverPoint(St, hit.row, hit.col),
                           Call("onPointerMove", "hoverPoint", hit.row, hit.col, "none", 0))
               [] OTHER ->
                    Finish(hoverPoint(St, -1, -1),
                           Call("onPointerMove", "hoverPoint", -1, -1, "none", 0))
  ELSE LET dx == x - dragRef.lastX
           dy == y - dragRef.lastY
       IN /\ dragRef' = [dragRef EXCEPT !.lastX = x, !.lastY = y]
          /\ IF dx = 0 /\ dy = 0
               THEN Finish(St, Call("onPointerMove", "none", -1, -1, "none", 0))
             ELSE IF dragRef.type = "point"
               THEN Finish(IF storeRev = "part_001"
                             THEN movePointEarly(St, dragRef.row, dragRef.col, dx, dy)
                             ELSE movePoint(St, dragRef.row, dragRef.col, dx, dy),
                           Call("onPointerMove", "movePoint", dragRef.row, dragRef.col,
                                "none", <<dx, dy>>))
             ELSE Finish(moveHandle(St, dragRef.row, dragRef.col, dragRef.handle, dx, dy),
                         Call("onPointerMove", "moveHandle", dragRef.row, dragRef.col,
                              dragRef.handle, <<dx, dy>>))

onPointerUp ==
  /\ dragRef' = NoDrag
  /\ IF dragRef # NoDrag
       THEN Finish(commitSnapshot(St),
                   Call("onPointerUp", "commitSnapshot", -1, -1, "none", 0))
       ELSE Finish(St, Call("onPointerUp", "none", -1, -1, "none", 0))

onPointerLeave ==
  /\ UNCHANGED dragRef
  /\ IF dragRef = NoDrag
       THEN Finish(hoverPoint(St, -1, -1),
                   Call("onPointerLeave", "hoverPoint", -1, -1, "none", 0))
       ELSE Finish(St, Call("onPointerLeave", "none", -1, -1, "none", 0))

\* Ctrl/Cmd+Z and the toolbar's Undo button
onUndo == Finish(undo(St), Call("onUndo", "undo", -1, -1, "none", 0))
                /\ UNCHANGED dragRef

\* Ctrl/Cmd+Shift+Z and the toolbar's Redo button
onRedo == Finish(redo(St), Call("onRedo", "redo", -1, -1, "none", 0))
                /\ UNCHANGED dragRef

\* the ResizeObserver callback
onResize(w, h) ==
  LET S == setCanvasSize(St, w, h)
  IN /\ FinishView(S, Call("onResize", "setCanvasSize", -1, -1, "none", 0),
                   IF S.thrown THEN view ELSE resizeCanvases(view, w, h))
     /\ UNCHANGED dragRef

\* useEffect: store.subscribe(listener), and its cleanup
onMount(l) ==
  /\ l \notin Range(listeners)
  /\ Finish(subscribe(St, l), Call("onMount", "subscribe", -1, -1, "none", 0))
  /\ UNCHANGED dragRef

onUnmount(l) ==
  /\ l \in Range(listeners)
  /\ Finish(unsubscribe(St, l), Call("onUnmount", "unsubscribe", -1, -1, "none", 0))
  /\ UNCHANGED dragRef

-----------------------------------------------------------------------------
(* The point panel: colour picker, opacity slider, grid buttons.  The panel  *)
(* shows the point controls only while a point is selected.                  *)

PointShown ==
  /\ selectedPoint # Null
  /\ InGrid(grid, selectedPoint.row, selectedPoint.col)

\* ColorPicker handleSVClick / handleHueClick / hex input: onChange({...rgb, a: color.a})
\* with rgb the colour under the pointer
onColorClick(rgb) ==
  /\ PointShown
  /\ LET a == PointAt(St, selectedPoint.row, selectedPoint.col).color.a
     IN Finish(setPointColor(St, selectedPoint.row, selectedPoint.col,
                             Rgba(rgb[1], rgb[2], rgb[3], a)),
               Call("handleSVClick", "setPointColor", selectedPoint.row,
                    selectedPoint.col, "none", rgb))
  /\ UNCHANGED dragRef

\* ColorPicker handleSVDrag / handleHueDrag: one pointermove sample with the
\* button held (e.buttons === 1) goes the same way
onColorDrag(rgb) ==
  /\ PointShown
  /\ LET a == PointAt(St, selectedPoint.row, selectedPoint.col).color.a
     IN Finish(setPointColor(St, selectedPoint.row, selectedPoint.col,
                             Rgba(rgb[1], rgb[2], rgb[3], a)),
               Call("handleSVDrag", "setPointColor", selectedPoint.row,
                    selectedPoint.col, "none", rgb))
  /\ UNCHANGED dragRef

\* the opacity slider's onChange: one sample of a slider drag, or one key step
onOpacityChange(v) ==
  /\ PointShown
  /\ Finish(setPointOpacity(St, selectedPoint.row, selectedPoint.col, v),
            Call("onOpacityChange", "setPointOpacity", selectedPoint.row,
                 selectedPoint.col, "none", v))
  /\ UNCHANGED dragRef

\* the opacity slider's onPointerUp and onKeyUp
onOpacityUp ==
  /\ PointShown
  /\ Finish(commitSnapshot(St), Call("onOpacityUp", "commitSnapshot", -1, -1, "none", 0))
  /\ UNCHANGED dragRef

onPresetClick(colors) ==
  /\ Finish(applyPreset(St, colors),
            Call("onPresetClick", "applyPreset", -1, -1, "none", colors))
  /\ UNCHANGED dragRef

onGridSizeClick(n) ==
  /\ Finish(resetGrid(St, n, n), Call("onGridSizeClick", "resetGrid", -1, -1, "none", n))
  /\ UNCHANGED dragRef

\* the Reset Grid button
onResetClick ==
  /\ Finish(resetGrid(St, grid.rows, grid.cols),
            Call("onResetClick", "resetGrid", -1, -1, "none", grid.rows))
  /\ UNCHANGED dragRef

onRandomizeClick(draw) ==
  /\ Finish(randomize(St, draw),
            Call("onRandomizeClick", "randomize", -1, -1, "none", draw))
  /\ UNCHANGED dragRef

\* store.setHandleType has no caller in the UI: the call itself
callSetHandleType(row, col, type) ==
  /\ Finish(setHandleType(St, row, col, type),
            Call("setHandleType", "setHandleType", row, col, "none", type))
  /\ UNCHANGED dragRef

-----------------------------------------------------------------------------
(* Calls of the settings API *)

Setting(S, op, arg) ==
  Finish(S, Call(op, op, -1, -1, "none", arg)) /\ UNCHANGED dragRef

callSetAnimationStyle(style) == Setting(setAnimationStyle(St, style), "setAnimationStyle", style)
callSetAnimationSpeed(v) == Setting(setAnimationSpeed(St, v), "setAnimationSpeed", v)
callSetAnimationStrength(v) == Setting(setAnimationStrength(St, v), "setAnimationStrength", v)
callSetSubdivision(n) == Setting(setSubdivision(St, n), "setSubdivision", n)
callSetArtboardSize(w, h) == Setting(setArtboardSize(St, w, h), "setArtboardSize", <<w, h>>)
callSetCanvasBackgroundColor(c) == Setting(setCanvasBackgroundColor(St, c), "setCanvasBackgroundColor", c)
callSetCanvasBackgroundOpacity(v) == Setting(setCanvasBackgroundOpacity(St, v), "setCanvasBackgroundOpacity", v)
callSetEffectType(t) == Setting(setEffectType(St, t), "setEffectType", t)
callSetEffectColor(c) == Setting(setEffectColor(St, c), "setEffectColor", c)
callSetEffectLineColor(c) == Setting(setEffectLineColor(St, c), "setEffectLineColor", c)
callSetEffectOpacity(v) == Setting(setEffectOpacity(St, v), "setEffectOpacity", v)
callSetEffectScale(v) == Setting(setEffectScale(St, v), "setEffectScale", v)
callSetEffectRotate(v) == Setting(setEffectRotate(St, v), "setEffectRotate", v)
callSetNoiseAnimated(b) == Setting(setNoiseAnimated(St, b), "setNoiseAnimated", b)
callSetNoiseEnabled(b) == Setting(setNoiseEnabled(St, b), "setNoiseEnabled", b)
callSetNoiseIntensity(v) == Setting(setNoiseIntensity(St, v), "setNoiseIntensity", v)
callSetNoiseColor(c) == Setting(setNoiseColor(St, c), "setNoiseColor", c)
callSetNoiseSize(v) == Setting(setNoiseSize(St, v), "setNoiseSize", v)
callSetNoiseSpeed(v) == Setting(setNoiseSpeed(St, v), "setNoiseSpeed", v)

-----------------------------------------------------------------------------
(* Construction: new EditorStore() *)

\* no function of math.ts was called on its own
NoResult == [fn |-> "none", args |-> <<>>, value |-> <<>>]

InitStore ==
  LET g0 == NewGrid(<<>>, {}, createDefaultGrid(3, 3, 800, 600, 0))
      S0 == [grid |-> g0.grid, heap |-> g0.heap, selectedPoint |-> Null,
             hoveredPoint |-> Null,
             canvasSize |-> [width |-> 800, height |-> 600],
             artboardSize |-> [width |-> 1600, height |-> 1000],
             subdivision |-> 20,
             animation |-> [style |-> "static", speed |-> 100, strength |-> 50],
             canvasBackground |-> [color |-> Byte(17, 17, 17), opacity |-> 100],
             effect |-> [type |-> "none", color |-> Byte(229, 229, 247),
                         lineColor |-> Byte(0, 0, 0), opacity |-> 30, scale |-> 3000,
                         rotate |-> 0],
             noise |-> [enabled |-> FALSE, animated |-> FALSE,
                        color |-> Byte(255, 255, 255), intensity |-> 30,
                        size |-> 134, speed |-> 40],
             listeners |-> <<>>, history |-> <<>>, historyIndex |-> -1, idSeed |-> 1,
             notified |-> <<>>, seen |-> <<>>, thrown |-> FALSE, snapped |-> 0]
  IN snapshot(S0)

InitFull(rev, b, v) ==
  LET S == InitStore
  IN /\ grid = S.grid /\ heap = S.heap
     /\ selectedPoint = S.selectedPoint /\ hoveredPoint = S.hoveredPoint
     /\ canvasSize = S.canvasSize /\ artboardSize = S.artboardSize
     /\ subdivision = S.subdivision /\ animation = S.animation
     /\ canvasBackground = S.canvasBackground /\ effect = S.effect /\ noise = S.noise
     /\ listeners = S.listeners /\ history = S.history
     /\ historyIndex = S.historyIndex /\ idSeed = S.idSeed
     /\ dragRef = NoDrag
     /\ last = Call("constructor", "snapshot", -1, -1, "none", 0)
     /\ notified = <<>> /\ seen = <<>> /\ thrown = FALSE /\ snapped = 1
     /\ snaps = 1
     /\ run = NoRun
     /\ budget = b
     /\ result = NoResult
     /\ storeRev = rev
     /\ view = v

InitRev(rev, b) == InitFull(rev, b, InitView)

InitWith(b) == InitRev("part_002", b)

-----------------------------------------------------------------------------
(* Inputs.  Pointer positions in 1/Cent px on the 800x600 canvas.            *)

AtCentre == <<40000, 30000>>      \* the point (1,1) of the 3x3 grid
AtLeftTip == <<28000, 30000>>     \* the tip of its left handle
AtSlant == <<32800, 22800>>       \* puts that handle at (-0.09, -0.12)
AtTiny == <<40000, 29997>>        \* puts that handle at (0, -0.00005)
AtCorner == <<80000, 60000>>      \* the last point of the grid, (2,2) or (4,4)

CanvasSizes == {<<1000, 500>>}
PickedColors == {<<100, 0, 0>>}
SliderValues == {50}
Presets == { << <<Rgba(0, 0, 100, 100), Rgba(0, 100, 0, 100)>> >> }
GridSizes == {3, 5}
Draws == { [r \in 1..5 |-> [c \in 1..5 |-> <<10 * r, 10 * c, 0>>]] }
HandleTypes == {"free"}

-----------------------------------------------------------------------------
(* Editing points: canvas gestures, the point panel, presets, undo/redo *)

MaxSteps == 5

Init == InitWith(MaxSteps)

Next ==
  \/ \E p \in {AtCentre, AtLeftTip} : onPointerDown(p[1], p[2])
  \/ \E p \in {AtSlant, AtTiny} : onPointerMove(p[1], p[2])
  \/ onPointerUp
  \/ onUndo
  \/ onRedo
  \/ \E c \in PickedColors : onColorClick(c)
  \/ \E c \in PickedColors : onColorDrag(c)
  \/ \E v \in SliderValues : onOpacityChange(v)
  \/ onOpacityUp
  \/ \E m \in Presets : onPresetClick(m)
  \/ \E t \in HandleTypes :
       PointShown /\ callSetHandleType(selectedPoint.row, selectedPoint.col, t)

Spec == Init /\ [][Next]_vars

-----------------------------------------------------------------------------
(* Grid-wide operations: grid size, canvas resize, listeners, undo/redo *)

MaxLayoutSteps == 5

InitLayout == InitWith(MaxLayoutSteps)

NextLayout ==
  \/ \E l \in {"tick", "panel"} : onMount(l)
  \/ \E s \in CanvasSizes : onResize(s[1], s[2])
  \/ \E n \in GridSizes : onGridSizeClick(n)
  \/ onPointerDown(AtCorner[1], AtCorner[2])
  \/ onPointerMove(AtCentre[1], AtCentre[2])
  \/ onPointerLeave
  \/ \E d \in Draws : onRandomizeClick(d)
  \/ onUndo
  \/ onRedo

SpecLayout == InitLayout /\ [][NextLayout]_vars

-----------------------------------------------------------------------------
(* Whole-grid operations: a 4 x 4 grid, reset, preset, random colours, a     *)
(* canvas resize, a drag of the last point, undo/redo                        *)

MaxGridSteps == 4

InitGrid == InitWith(MaxGridSteps)

NextGrid ==
  \/ onGridSizeClick(4)
  \/ onResetClick
  \/ \E m \in Presets : onPresetClick(m)
  \/ \E d \in Draws : onRandomizeClick(d)
  \/ \E s \in CanvasSizes : onResize(s[1], s[2])
  \/ onPointerDown(AtCorner[1], AtCorner[2])
  \/ onPointerMove(AtCentre[1], AtCentre[2])
  \/ onUndo
  \/ onRedo

SpecGrid == InitGrid /\ [][NextGrid]_vars

-----------------------------------------------------------------------------
(* Dragging a point off the canvas, with either store module: the last       *)
(* point of the grid is dragged to the right, far to the right, far to the   *)
(* upper left, and back to the centre                                        *)

MaxDragSteps == 5

StoreRevisions == {"part_001", "part_002"}

AtOverscan == <<120000, 60000>>       \* 400 px right of the canvas
AtFarRight == <<400000, 60000>>
AtFarLeft == <<0 - 200000, 0 - 200000>>

InitDrag == \E rev \in StoreRevisions : InitRev(rev, MaxDragSteps)

NextDrag ==
  \/ onPointerDown(AtCorner[1], AtCorner[2])
  \/ \E p \in {AtOverscan, AtFarRight, AtFarLeft, AtCentre} : onPointerMove(p[1], p[2])
  \/ onPointerUp
  \/ onUndo
  \/ onRedo

SpecDrag == InitDrag /\ [][NextDrag]_vars

-----------------------------------------------------------------------------
(* Handle editing: the centre point is selected, a handle is grabbed and     *)
(* dragged onto the point, next to it, or away from it                       *)

MaxHandleSteps == 5

InitHandles == InitWith(MaxHandleSteps)

NextHandles ==
  \/ \E p \in {AtCentre, AtLeftTip} : onPointerDown(p[1], p[2])
  \/ \E p \in {AtCentre, AtTiny, AtSlant} : onPointerMove(p[1], p[2])
  \/ onPointerUp
  \/ onUndo
  \/ \E t \in HandleTypes :
       PointShown /\ callSetHandleType(selectedPoint.row, selectedPoint.col, t)

SpecHandles == InitHandles /\ [][NextHandles]_vars

-----------------------------------------------------------------------------
(* math.ts on its own: tessellate and evalPatchPosition applied to grids and *)
(* patches drawn from small sets.  The canvas is a few pixels wide so that   *)
(* the exact numerators stay within the integers of the checker.  A run is   *)
(* one call.                                                                 *)

MaxMeshSize == 3
MaxSubdiv == 3

MeshExtents == {<<8, 4>>, <<4, 8>>}

\* a grid whose first point was dragged, recoloured and given free handles
Bent(g) ==
  [g EXCEPT !.points[1][1] =
     [@ EXCEPT !.position = Vec(10000, 0 - 5000),
               !.color = Rgba(100, 0, 50, 40),
               !.handles = [left |-> Vec(0 - 20000, 4000), right |-> Vec(9000, 12000),
                            up |-> Vec(3000, 0 - 7000), down |-> Vec(0 - 6000, 21000),
                            type |-> "free"]]]

\* a grid whose point of the second row and column, which every patch of a
\* 3 x 3 grid has for a corner, was dragged and given free handles
BentMiddle(g) ==
  [g EXCEPT !.points[2][2] =
     [@ EXCEPT !.position = Vec(@.x - 7000, @.y + 11000),
               !.handles = [left |-> Vec(0 - 13000, 0 - 9000), right |-> Vec(17000, 5000),
                            up |-> Vec(8000, 0 - 19000), down |-> Vec(0 - 11000, 6000),
                            type |-> "free"]]]

Meshes ==
  LET plain == {createDefaultGrid(r, c, e[1], e[2], 0) :
                  r \in 2..MaxMeshSize, c \in 2..MaxMeshSize, e \in MeshExtents}
  IN plain \cup {Bent(g) : g \in plain} \cup {BentMiddle(g) : g \in plain}

\* rows, cols, subdivision of grids too large to fill: the default grid at 16
\* and at 20, and grids around 65535 vertices
LargeMeshes ==
  {<<3, 3, 16>>, <<3, 3, 20>>, <<2, 2, 254>>, <<2, 2, 255>>, <<2, 3, 255>>,
   <<256, 258, 0>>, <<4, 6, 65>>, <<2, 16, 65>>}

\* the four corners of a patch, each a default point or a bent one
CornerPoints(r, c) ==
  LET g == createDefaultGrid(2, 2, 8, 4, 0)
  IN {g.points[r][c],
      [g.points[r][c] EXCEPT
         !.position = Vec(@.x + 10000 * r, @.y - 5000 * c),
         !.handles = [left |-> Vec(0 - 20000 + 1000 * c, 4000),
                      right |-> Vec(9000, 12000 + 1000 * r),
                      up |-> Vec(3000 * r, 0 - 7000),
                      down |-> Vec(0 - 6000, 21000 - 2000 * c),
                      type |-> "free"]]}

PatchCorners ==
  {[tl |-> a, tr |-> b, bl |-> c, br |-> d] :
     a \in CornerPoints(1, 1), b \in CornerPoints(1, 2),
     c \in CornerPoints(2, 1), d \in CornerPoints(2, 2)}

callTessellate(g, subdiv) ==
  /\ result.fn = "none"
  /\ result' = [fn |-> "tessellate", args |-> <<g, subdiv>>,
                value |-> tessellate(g, subdiv)]
  /\ UNCHANGED <<editorVars, view>>

\* tessellate on a large grid: the result by its sizes, the arrays unfilled
callTessellateLarge(rows, cols, subdiv) ==
  LET sz == tessellateSizes(rows, cols, subdiv)
  IN /\ result.fn = "none"
     /\ result' = [fn |-> "tessellateSizes", args |-> <<rows, cols, subdiv>>,
                   value |-> [positions |-> sz.positions, colors |-> sz.colors,
                              indices |-> sz.indices, vertexCount |-> sz.totalVerts]]
     /\ UNCHANGED <<editorVars, view>>

callEvalPatchPosition(patch, u, v, w, h) ==
  /\ result.fn = "none"
  /\ result' = [fn |-> "evalPatchPosition", args |-> <<patch, u, v, w, h>>,
                value |-> evalPatchPosition(patch, u, v, w, h)]
  /\ UNCHANGED <<editorVars, view>>

InitMath == InitWith(0)

NextMath ==
  \/ \E g \in Meshes, subdiv \in 1..MaxSubdiv : callTessellate(g, subdiv)
  \/ \E m \in LargeMeshes : callTessellateLarge(m[1], m[2], m[3])
  \/ \E patch \in PatchCorners, d \in 1..MaxSubdiv, e \in MeshExtents :
       \E un \in 0..d, vn \in 0..d :
         callEvalPatchPosition(patch, Frac(un, d), Frac(vn, d), e[1], e[2])

SpecMath == InitMath /\ [][NextMath]_vars

-----------------------------------------------------------------------------
(* A long editing session: the centre point is clicked, its opacity is      *)
(* stepped down with the arrow key MaxEdits times (each key press one       *)
(* onChange and one onKeyUp), and undo is pressed up to MaxUndos times.      *)

MaxEdits == 60
MaxUndos == 51

Alpha == PointAt(St, selectedPoint.row, selectedPoint.col).color.a

InitHistory == InitWith(-1)

NextHistory ==
  \/ last.handler = "constructor" /\ onPointerDown(AtCentre[1], AtCentre[2])
  \/ last.handler = "onPointerDown" /\ onPointerUp
  \/ /\ last.op = "commitSnapshot"
     /\ PointShown
     /\ Alpha > Cent - MaxEdits
     /\ onOpacityChange(Alpha - 1)
  \/ last.op = "setPointOpacity" /\ onOpacityUp
  \/ /\ last.handler \in {"onOpacityUp", "onUndo"}
     /\ run.undos < MaxUndos
     /\ onUndo

SpecHistory == InitHistory /\ [][NextHistory]_vars

-----------------------------------------------------------------------------
(* A long editing session that ends in an interleaving: as above, and once   *)
(* the history holds 49 snapshots or more, undo and redo at any moment, also *)
(* between a key press and its release.  MaxDeepSteps handlers in all: 98 to *)
(* take the 49th snapshot, the rest for the interleaving.                    *)

MaxDeepSteps == 108

InitDeep == InitWith(MaxDeepSteps)

NextDeep ==
  \/ last.handler = "constructor" /\ onPointerDown(AtCentre[1], AtCentre[2])
  \/ last.handler = "onPointerDown" /\ onPointerUp
  \/ /\ last.handler \notin {"constructor", "onPointerDown"}
     /\ last.op # "setPointOpacity"
     /\ PointShown
     /\ Alpha > Cent - MaxEdits
     /\ onOpacityChange(Alpha - 1)
  \/ last.op = "setPointOpacity" /\ onOpacityUp
  \/ Len(history) >= MaxHistory - 1 /\ onUndo
  \/ Len(history) >= MaxHistory - 1 /\ onRedo

SpecDeep == InitDeep /\ [][NextDeep]_vars

-----------------------------------------------------------------------------
(* The animation panel *)

AnimationStyles == {"static", "fluid", "smooth", "pulse", "wave", "waterDrop", "rotate"}
Speeds == {-100, 5, 300, 1000}
Strengths == {-100, 30, 150, 1000}

InitAnim == InitWith(-1)

NextAnim ==
  \/ \E style \in AnimationStyles : callSetAnimationStyle(style)
  \/ \E v \in Speeds : callSetAnimationSpeed(v)
  \/ \E v \in Strengths : callSetAnimationStrength(v)
  \/ onMount("panel")
  \/ onUnmount("panel")

SpecAnim == InitAnim /\ [][NextAnim]_vars

-----------------------------------------------------------------------------
(* The frame loop: frames on hosts that grant or refuse the glass resources  *)

MaxFrameSteps == 5

FrameTimes == {16, 1000}

InitFrame == InitWith(MaxFrameSteps)

NextFrame ==
  \/ \E now \in FrameTimes : \E host \in GlassHosts : frame(now, host)
  \/ \E t \in {"none", "glass"} : callSetEffectType(t)
  \/ callSetNoiseEnabled(TRUE)
  \/ callSetNoiseAnimated(TRUE)
  \/ \E s \in {<<0, 0>>, <<1000, 500>>} : onResize(s[1], s[2])
  \/ onMotionChange(TRUE)

SpecFrame == InitFrame /\ [][NextFrame]_vars

-----------------------------------------------------------------------------
(* The renderer: update and dispose, on each MeshRenderer of the repository  *)

MaxRendererSteps == 3

RendererRevisions == {"part_003", "renderer.ts"}

InitRenderer ==
  \E rev \in RendererRevisions :
    InitFull("part_002", MaxRendererSteps,
             [InitView EXCEPT !.renderer = newMeshRenderer(rev)])

NextRenderer ==
  \/ \E g \in Meshes, n \in 1..2 : callRendererUpdate(g, n)
  \/ callRendererDispose

SpecRenderer == InitRenderer /\ [][NextRenderer]_vars

-----------------------------------------------------------------------------
(* The clamped settings: effect, noise, canvas background *)

MaxCalls == 3

InitEffect == InitWith(MaxCalls)

NextEffect ==
  \/ \E t \in {"none", "wavy", "zigzag"} : callSetEffectType(t)
  \/ \E v \in {-50, 250} : callSetEffectOpacity(v)
  \/ \E v \in {-700, 1050, 1049, 99900} : callSetEffectScale(v)
  \/ \E v \in {-36000, 4500, 36000} : callSetEffectRotate(v)
  \/ \E v \in {-50, 250} : callSetCanvasBackgroundOpacity(v)
  \/ \E v \in {-50, 250} : callSetNoiseIntensity(v)
  \/ \E v \in {5, 900} : callSetNoiseSize(v)
  \/ \E v \in {-50, 250} : callSetNoiseSpeed(v)

SpecEffect == InitEffect /\ [][NextEffect]_vars

-----------------------------------------------------------------------------
(* The unclamped settings: colours, switches, subdivision, artboard *)

InitFlags == InitWith(-1)

NextFlags ==
  \/ \E b \in BOOLEAN : callSetNoiseAnimated(b)
  \/ \E b \in BOOLEAN : callSetNoiseEnabled(b)
  \/ callSetNoiseColor([r |-> 255, g |-> 0, b |-> 0, a |-> 128])
  \/ callSetEffectColor([r |-> 255, g |-> 0, b |-> 0, a |-> 128])
  \/ callSetEffectLineColor([r |-> 255, g |-> 0, b |-> 0, a |-> 128])
  \/ callSetCanvasBackgroundColor([r |-> 255, g |-> 0, b |-> 0, a |-> 128])
  \/ \E n \in {8, 20} : callSetSubdivision(n)
  \/ \E w \in {5000, 204850, 900000} : callSetArtboardSize(w, 100000)

SpecFlags == InitFlags /\ [][NextFlags]_vars

-----------------------------------------------------------------------------
(* Properties *)

Max(a, b) == IF a > b THEN a ELSE b
Min(a, b) == IF a < b THEN a ELSE b
Cross(u, v) == u.x * v.y - u.y * v.x
Dot(u, v) == u.x * v.x + u.y * v.y
LiveGrid == Deref(heap, grid)
Entry(i) == Deref(heap, history[i])

\* C1: the history never holds more than 50 snapshots: once 50 or more
\* snapshots were taken in a row (60, say) exactly 50 are retained, and undo()
\* steps back at most 49 times: after 49 or more undo() calls that follow at
\* least 49 committed edits the store rests on the oldest retained snapshot,
\* which is the 50th from last.
HistoryBound ==
  /\ Len(history) <= 50
  /\ historyIndex \in 0..(Len(history) - 1)
  /\ snaps >= 50 => Len(history) = 50
  /\ (run.valid /\ Len(run.origs) >= 49 /\ run.undos >= 49
      /\ run.origs[Len(run.origs) - 48].clean)
       => /\ historyIndex = 0
          /\ LiveGrid = Entry(1)
          /\ LiveGrid = run.origs[Len(run.origs) - 48].grid

\* 60 edits were committed and undo was pressed more than 49 times
HistoryBoundReached ==
  /\ snaps >= 60
  /\ Len(history) = 50
  /\ run.valid /\ Len(run.origs) = 50 /\ run.undos > 49
  /\ historyIndex = 0

\* C2: from a grid that equals the current snapshot, N committed edits
\* (N < 50) followed by N undo() calls leave the grid equal to the grid before
\* the first of these edits.
UndoRoundTrip ==
  \A n \in 1..49 :
    (/\ run.valid /\ run.pending = <<>>
     /\ run.undos = n /\ n <= Len(run.origs)
     /\ run.origs[Len(run.origs) - n + 1].clean)
      => LiveGrid = run.origs[Len(run.origs) - n + 1].grid

\* 49 edits undone by 49 undo() calls
UndoRoundTripReached ==
  /\ run.valid /\ run.undos = 49 /\ Len(run.origs) >= 49
  /\ run.origs[Len(run.origs) - 48].clean
  /\ LiveGrid = run.origs[Len(run.origs) - 48].grid
  /\ LiveGrid # run.origs[Len(run.origs)].grid

\* C3: whenever undo() can step back, undo() followed at once by redo() leaves
\* the grid equal to the grid just before the undo().
UndoRedoRoundTrip ==
  (last.op = "redo" /\ last.before # <<>>) => LiveGrid = last.before[1]

\* C4: a sample of a drag (pointer move over the canvas, opacity slider change,
\* colour-picker drag) leaves the history list and the history index unchanged,
\* and the end of the gesture appends one snapshot.
NoSnapshotPerDragSample ==
  [][/\ (/\ last'.handler \in {"onPointerMove", "onOpacityChange", "handleSVDrag"}
         /\ last'.op \in EditOps)
        => /\ historyIndex' = historyIndex
           /\ Len(history') = Len(history)
           /\ \A i \in 1..Len(history) : Deref(heap', history'[i]) = Entry(i)
     /\ last'.op = "commitSnapshot"
        => /\ Len(history') = Min(50, historyIndex + 2)
           /\ Deref(heap', history'[Len(history')]) = Deref(heap', grid')]_vars

\* C5: history entries share no row array with the live grid or with each
\* other, and an edit of the live grid (movePoint, moveHandle, setPointColor,
\* setPointOpacity, setHandleType) changes no entry the history keeps, the
\* entry last restored by undo()/redo() included.
HistoryEntriesIsolated ==
  [][last'.op \in EditOps =>
       LET d == historyIndex + snapped' - historyIndex'
       IN /\ \A i \in (d + 1)..(historyIndex + 1) :
               Deref(heap', history'[i - d]) = Entry(i)
          /\ \A i \in 1..Len(history') :
               /\ Range(history'[i].points) \cap Range(grid'.points) = {}
               /\ \A j \in 1..Len(history') :
                    i # j => Range(history'[i].points) \cap Range(history'[j].points) = {}]_vars

\* the live grid was edited after an undo() restored it
EditedAfterRestore ==
  /\ last.op \in {"setPointOpacity", "movePoint", "moveHandle"}
  /\ ~thrown
  /\ historyIndex < Len(history) - 1
  /\ LiveGrid # Entry(historyIndex + 1)

\* C6: setAnimationSpeed(s) stores s clamped to [2,6] when the style is smooth
\* and to [0.1,4] otherwise; setAnimationStrength(s) stores s clamped to [0.5,2]
\* when the style is smooth and to [0,1] otherwise.
SpeedClampedToStyle ==
  /\ last.op = "setAnimationSpeed" =>
       animation.speed = IF animation.style = "smooth"
                         THEN Max(200, Min(600, last.arg))
                         ELSE Max(10, Min(400, last.arg))
  /\ last.op = "setAnimationStrength" =>
       animation.strength = IF animation.style = "smooth"
                            THEN Max(50, Min(200, last.arg))
                            ELSE Max(0, Min(100, last.arg))

\* style smooth, speed 10 requested, 6 stored
SmoothSpeedTenStoredAsSix ==
  /\ last.op = "setAnimationSpeed" /\ last.arg = 1000
  /\ animation.style = "smooth" /\ animation.speed = 600

\* C7 (as stated): setAnimationStyle leaves the stored speed as it was.
StyleKeepsSpeed ==
  last.op = "setAnimationStyle" => animation.speed = last.before[1].speed

\* C7 (amended): setAnimationStyle(style) re-clamps the stored speed and
\* strength to the new style's ranges at once, so smooth with speed 6 followed
\* by fluid stores speed 4.
StyleReclampsSpeed ==
  last.op = "setAnimationStyle" =>
    /\ animation.style = last.arg
    /\ animation.speed = IF last.arg = "smooth"
                         THEN Max(200, Min(600, last.before[1].speed))
                         ELSE Max(10, Min(400, last.before[1].speed))
    /\ animation.strength = IF last.arg = "smooth"
                            THEN Max(50, Min(200, last.before[1].strength))
                            ELSE Max(0, Min(100, last.before[1].strength))

\* smooth with speed 6, then fluid: speed 4
SmoothSixToFluidFour ==
  /\ last.op = "setAnimationStyle" /\ last.arg = "fluid"
  /\ last.before[1].style = "smooth" /\ last.before[1].speed = 600
  /\ animation.speed = 400

\* C8: effect.opacity in [0,1], effect.scale an integer in [4,128],
\* effect.rotate in [-180,180], noise.intensity in [0,1], noise.size in [0.1,4],
\* noise.speed in [0,1.5], canvasBackground.opacity in [0,1], always.
SettingsInRange ==
  /\ effect.opacity >= 0 /\ effect.opacity <= 100
  /\ effect.scale >= 400 /\ effect.scale <= 12800 /\ effect.scale % 100 = 0
  /\ effect.rotate >= -18000 /\ effect.rotate <= 18000
  /\ noise.intensity >= 0 /\ noise.intensity <= 100
  /\ noise.size >= 10 /\ noise.size <= 400
  /\ noise.speed >= 0 /\ noise.speed <= 150
  /\ canvasBackground.opacity >= 0 /\ canvasBackground.opacity <= 100

\* a scale of 10.5 was requested and 11 stored, the other settings at a limit
\* or at the preset of the effect type
ScaleRoundedInRange ==
  /\ last.op = "setEffectScale" /\ last.arg = 1050 /\ effect.scale = 1100
  /\ effect.type = "zigzag" /\ effect.opacity \in {0, 80, 100}

\* C9: a call of a mutation operation invokes every subscribed listener exactly
\* once, after the call's update of the state is complete.
MutationOps ==
  EditOps \cup {"resetGrid", "applyPreset", "randomize", "setSubdivision",
                "setAnimationStyle", "setAnimationSpeed", "setAnimationStrength",
                "setCanvasBackgroundColor", "setCanvasBackgroundOpacity",
                "setEffectType", "setEffectColor", "setEffectLineColor",
                "setEffectOpacity", "setEffectScale", "setEffectRotate",
                "setNoiseAnimated", "setNoiseEnabled", "setNoiseIntensity",
                "setNoiseColor", "setNoiseSize", "setNoiseSpeed"}
NotifiesEveryListener ==
  last.op \in MutationOps =>
    /\ notified = listeners
    /\ listeners # <<>> => seen = <<View(St)>>

\* C10 (as stated): after moveHandle puts a handle of a mirrorAngle point at a
\* non-zero vector n, the opposite handle is antiparallel to n and as long as
\* it was.  (Stated for the vectors on which the integer arithmetic above is
\* exact: both lengths whole numbers of units and the quotients whole.)
MovedHandle == PointAt(St, last.row, last.col).handles[last.handle]
OppositeNow == PointAt(St, last.row, last.col).handles[Opposite(last.handle)]
OppositeBefore == last.before[1].handles[Opposite(last.handle)]
MirrorCall ==
  /\ last.op = "moveHandle" /\ last.before # <<>>
  /\ last.before[1].handles.type = "mirrorAngle"
ExactCase ==
  LET h == Hypot(MovedHandle.x, MovedHandle.y)
      l == Hypot(OppositeBefore.x, OppositeBefore.y)
  IN /\ h * h = Dot(MovedHandle, MovedHandle)
     /\ l * l = Dot(OppositeBefore, OppositeBefore)
     /\ h > 0 /\ (MovedHandle.x * l) % h = 0 /\ (MovedHandle.y * l) % h = 0
Mirrored ==
  /\ Cross(MovedHandle, OppositeNow) = 0
  /\ Dot(MovedHandle, OppositeNow) < 0
  /\ Dot(OppositeNow, OppositeNow) = Dot(OppositeBefore, OppositeBefore)
MirrorAngleAnyNonZero ==
  (MirrorCall /\ MovedHandle # Vec(0, 0) /\ ExactCase) => Mirrored

\* C10 (amended): the same for a vector n longer than 0.0001; a shorter one
\* leaves the opposite handle as it was.
MirrorAngleAboveThreshold ==
  LET eps == PosUnit \div 10000
  IN /\ (MirrorCall /\ ExactCase /\ Dot(MovedHandle, MovedHandle) > eps * eps)
          => Mirrored
     /\ (MirrorCall /\ Dot(MovedHandle, MovedHandle) < eps * eps)
          => OppositeNow = OppositeBefore

\* the left handle was dragged to (-0.09, -0.12): the right one is (0.09, 0.12)
MirroredSlant ==
  /\ MirrorCall /\ last.handle = "left"
  /\ MovedHandle = Vec(-9000, -12000)
  /\ OppositeNow = Vec(9000, 12000)

\* C11: when moveHandle on a mirrorAngle point leaves the edited handle
\* shorter than 0.0001, the opposite handle is left as it was, the edited
\* handle is the old one moved by (dx / width, dy / height), and no handle of
\* the grid or of a history entry ever holds a component that is not a number.
HandlesFinite(g) ==
  \A r \in 1..g.rows : \A c \in 1..g.cols : \A i \in 1..4 :
    LET h == g.points[r][c].handles[HandleNames[i]]
    IN h.x # NaN /\ h.y # NaN
DegenerateCall ==
  MirrorCall /\ Dot(MovedHandle, MovedHandle) < MirrorEps * MirrorEps
DegenerateMirrorSkipped ==
  /\ HandlesFinite(LiveGrid)
  /\ \A i \in 1..Len(history) : HandlesFinite(Entry(i))
  /\ DegenerateCall =>
       /\ OppositeNow = OppositeBefore
       /\ MovedHandle =
            Vec(last.before[1].handles[last.handle].x + Norm(last.arg[1], grid.width),
                last.before[1].handles[last.handle].y + Norm(last.arg[2], grid.height))

\* the left handle was dragged onto its point: it is (0, 0) now and the right
\* handle is still (0.15, 0)
DegenerateAtZero ==
  /\ DegenerateCall /\ last.handle = "left"
  /\ last.before[1].handles.left = Vec(0 - HANDLE_STRENGTH, 0)
  /\ MovedHandle = Vec(0, 0)
  /\ OppositeNow = Vec(HANDLE_STRENGTH, 0)

\* C12 (as stated): for a grid of R x C points (R, C >= 2) and a subdivision
\* S >= 1, tessellate returns vertexCount = (R-1)(C-1)(S+1)^2, 3 * vertexCount
\* positions, 4 * vertexCount colours and 3 * 2 * (R-1)(C-1) * S^2 indices,
\* and every entry of the three buffers is written; the default 3 x 3 grid at
\* S = 16 gives 1156 vertices and 1024 triangles.
Filled(arr) ==
  /\ DOMAIN arr.data = 0..(arr.length - 1)
  /\ \A i \in 0..(arr.length - 1) : arr.written[i]
TessellationSizes ==
  /\ result.fn = "tessellate" =>
       LET g == result.args[1]
           S == result.args[2]
           t == result.value
           patches == (g.rows - 1) * (g.cols - 1)
       IN /\ t.vertexCount = patches * (S + 1) * (S + 1)
          /\ t.positions.length = 3 * t.vertexCount
          /\ t.colors.length = 4 * t.vertexCount
          /\ t.indices.length = 3 * 2 * patches * S * S
          /\ Filled(t.positions) /\ Filled(t.colors) /\ Filled(t.indices)
  /\ (result.fn = "tessellateSizes" /\ result.args[3] >= 1) =>
       LET patches == (result.args[1] - 1) * (result.args[2] - 1)
           S == result.args[3]
           t == result.value
       IN /\ t.vertexCount = patches * (S + 1) * (S + 1)
          /\ t.positions.length = 3 * t.vertexCount
          /\ t.colors.length = 4 * t.vertexCount
          /\ t.indices.length = 3 * 2 * patches * S * S
TessellationCountsAsStated ==
  /\ TessellationSizes
  /\ result.args = <<3, 3, 16>> =>
       /\ result.value.vertexCount = 1156
       /\ result.value.indices.length = 3 * 1024

\* C12 (amended): the same sizes; the default 3 x 3 grid at S = 16 gives 1156
\* vertices and 2 * 2 * 16 * 16 * 2 = 2048 triangles.
TessellationCounts ==
  /\ TessellationSizes
  /\ result.args = <<3, 3, 16>> =>
       /\ result.value.vertexCount = 1156
       /\ result.value.indices.length = 3 * 2048

\* a 3 x 2 grid at S = 3: two patches, 32 vertices, 36 triangles, all written
TessellatedThreeByTwo ==
  /\ result.fn = "tessellate"
  /\ result.args[1].rows = 3 /\ result.args[1].cols = 2 /\ result.args[2] = 3
  /\ result.value.vertexCount = 32
  /\ result.value.indices.length = 108
  /\ \A i \in 0..107 : result.value.indices.written[i]

\* C13: the index buffer is 16 bits wide exactly when the total vertex count
\* is at most 65535, and 32 bits wide otherwise.
IndexWidthBoundary ==
  result.fn \in {"tessellate", "tessellateSizes"} =>
    /\ result.value.indices.kind \in {"Uint16Array", "Uint32Array"}
    /\ result.value.indices.kind = "Uint16Array" <=> result.value.vertexCount <= 65535

\* 2 x 2 points at S = 255: 65536 vertices, 32-bit indices
WideIndicesAt65536 ==
  /\ result.fn = "tessellateSizes" /\ result.args = <<2, 2, 255>>
  /\ result.value.vertexCount = 65536
  /\ result.value.indices.kind = "Uint32Array"

\* C14: for the k-th patch (row-major) and every quad (row, col) of it the six
\* indices emitted are v0, v2, v1, v1, v2, v3 with v0 = k(S+1)^2 + row(S+1) + col,
\* v1 = v0 + 1, v2 = v0 + (S+1), v3 = v2 + 1, the quads in row-major order.
QuadWinding ==
  result.fn = "tessellate" =>
    LET g == result.args[1]
        S == result.args[2]
        ix == result.value.indices.data
    IN \A k \in 0..((g.rows - 1) * (g.cols - 1) - 1) :
         \A row \in 0..(S - 1) : \A col \in 0..(S - 1) :
           LET v0 == k * (S + 1) * (S + 1) + row * (S + 1) + col
               v1 == v0 + 1
               v2 == v0 + (S + 1)
               v3 == v2 + 1
               at == 6 * (k * S * S + row * S + col)
           IN <<ix[at], ix[at + 1], ix[at + 2], ix[at + 3], ix[at + 4], ix[at + 5]>>
                = <<v0, v2, v1, v1, v2, v3>>

\* 3 x 3 points at S = 2: the last quad of the second patch is 13, 16, 14,
\* 14, 16, 17
SecondPatchLastQuad ==
  /\ result.fn = "tessellate"
  /\ result.args[1].rows = 3 /\ result.args[1].cols = 3 /\ result.args[2] = 2
  /\ LET ix == result.value.indices.data
     IN <<ix[42], ix[43], ix[44], ix[45], ix[46], ix[47]>> = <<13, 16, 14, 14, 16, 17>>

\* C15: evalPatchPosition interpolates its boundary: at (u, 0) it is the top
\* boundary curve at u, at (u, 1) the bottom one, at (0, v) the left one at v,
\* at (1, v) the right one, and at the four corners the pixel positions of tl,
\* tr, bl and br.
Curve(a, aOut, b, bIn, t, w, h) ==
  LET A == toPixel(a.position, w, h)
      B == toPixel(b.position, w, h)
  IN Vec(cubicBezier(A.x, A.x + aOut.x * w, B.x + bIn.x * w, B.x, t)
           \div (t.d * t.d * t.d),
         cubicBezier(A.y, A.y + aOut.y * h, B.y + bIn.y * h, B.y, t)
           \div (t.d * t.d * t.d))
BoundaryInterpolated ==
  result.fn = "evalPatchPosition" =>
    LET patch == result.args[1]
        u == result.args[2]
        v == result.args[3]
        w == result.args[4]
        h == result.args[5]
        at == result.value
    IN /\ v.n = 0 =>
            at = Curve(patch.tl, patch.tl.handles.right, patch.tr,
                       patch.tr.handles.left, u, w, h)
       /\ v.n = v.d =>
            at = Curve(patch.bl, patch.bl.handles.right, patch.br,
                       patch.br.handles.left, u, w, h)
       /\ u.n = 0 =>
            at = Curve(patch.tl, patch.tl.handles.down, patch.bl,
                       patch.bl.handles.up, v, w, h)
       /\ u.n = u.d =>
            at = Curve(patch.tr, patch.tr.handles.down, patch.br,
                       patch.br.handles.up, v, w, h)
       /\ (u.n = 0 /\ v.n = 0) => at = toPixel(patch.tl.position, w, h)
       /\ (u.n = u.d /\ v.n = 0) => at = toPixel(patch.tr.position, w, h)
       /\ (u.n = 0 /\ v.n = v.d) => at = toPixel(patch.bl.position, w, h)
       /\ (u.n = u.d /\ v.n = v.d) => at = toPixel(patch.br.position, w, h)

\* a third of the way along the top edge of a patch with bent corners: the
\* value is on the curve and off the straight line from tl to tr
OnBentTopCurve ==
  /\ result.fn = "evalPatchPosition"
  /\ result.args[3].n = 0 /\ result.args[2] = Frac(1, 3)
  /\ result.args[1].tl.handles.type = "free"
  /\ LET TL == toPixel(result.args[1].tl.position, result.args[4], result.args[5])
         TR == toPixel(result.args[1].tr.position, result.args[4], result.args[5])
     IN /\ result.value = Curve(result.args[1].tl, result.args[1].tl.handles.right,
                               result.args[1].tr, result.args[1].tr.handles.left,
                               result.args[2], result.args[4], result.args[5])
        /\ result.value # Vec((2 * TL.x + TR.x) \div 3, (2 * TL.y + TR.y) \div 3)

\* C16: in every reachable state the grid is well-formed: grid.points has
\* grid.rows rows, every row has grid.cols entries, each of them a point, and
\* grid.rows >= 2 and grid.cols >= 2.
WellFormed(g) ==
  /\ g.rows >= 2 /\ g.cols >= 2
  /\ Len(g.points) = g.rows
  /\ \A r \in 1..Len(g.points) :
       /\ Len(g.points[r]) = g.cols
       /\ \A c \in 1..Len(g.points[r]) :
            DOMAIN g.points[r][c] = {"id", "position", "color", "handles"}
PointIds(g) == {g.points[r][c].id : r \in 1..g.rows, c \in 1..g.cols}
ResetGridStep ==
  LET n == last'.arg
      kept == historyIndex + 1
      len == Len(history')
  IN /\ LiveGrid' = createDefaultGrid(n, n, canvasSize.width, canvasSize.height, idSeed)
     /\ canvasSize' = canvasSize
     /\ LiveGrid'.width = canvasSize'.width /\ LiveGrid'.height = canvasSize'.height
     /\ PointIds(LiveGrid') \cap PointIds(LiveGrid) = {}
     /\ Range(grid'.points) \cap HistoryAddrs(history') = {}
     /\ selectedPoint' = Null
     /\ snapped' = 1
     /\ len = Min(kept + 1, MaxHistory)
     /\ historyIndex' = len - 1
     /\ Deref(heap', history'[len]) = LiveGrid'
     /\ \A i \in 1..(len - 1) :
          Deref(heap', history'[i]) = Deref(heap, history[i + kept + 1 - len])
ResetGridReplaces == [][last'.op = "resetGrid" => ResetGridStep]_vars

\* Reset Grid was pressed after a resize and an undo: the grid before it had
\* the old extent, the new one has the canvas size
ResetAtCanvasSize ==
  /\ last.handler = "onResetClick" /\ last.op = "resetGrid"
  /\ historyIndex = 1 /\ Len(history) = 2
  /\ Entry(1).width = 800 /\ canvasSize.width = 1000
  /\ LiveGrid = createDefaultGrid(3, 3, 1000, 500, idSeed - 1)
  /\ selectedPoint = Null

\* C18: applyPreset and randomize change nothing of the grid but point
\* colours: every point keeps its id, position and handles, the grid its rows,
\* cols, width and height; applyPreset gives point (r, c) the colour
\* colors[r mod rows of the matrix][c mod cols of that row], randomize gives
\* every point the drawn red, green and blue and alpha 1.
SameButColors(g, h) ==
  /\ h.rows = g.rows /\ h.cols = g.cols /\ h.width = g.width /\ h.height = g.height
  /\ DOMAIN h.points = DOMAIN g.points
  /\ \A r \in DOMAIN g.points :
       /\ DOMAIN h.points[r] = DOMAIN g.points[r]
       /\ \A c \in DOMAIN g.points[r] :
            /\ h.points[r][c].id = g.points[r][c].id
            /\ h.points[r][c].position = g.points[r][c].position
            /\ h.points[r][c].handles = g.points[r][c].handles
RecolorStep ==
  /\ last'.op \in {"applyPreset", "randomize"} => SameButColors(LiveGrid, LiveGrid')
  /\ last'.op = "applyPreset" =>
       \A r \in 0..(grid.rows - 1) : \A c \in 0..(grid.cols - 1) :
         LET row == last'.arg[(r % Len(last'.arg)) + 1]
         IN LiveGrid'.points[r + 1][c + 1].color = row[(c % Len(row)) + 1]
  /\ last'.op = "randomize" =>
       \A r \in 1..grid.rows : \A c \in 1..grid.cols :
         LET t == last'.arg[r][c]
         IN LiveGrid'.points[r][c].color = Rgba(t[1], t[2], t[3], Cent)
RecolorKeepsShape == [][RecolorStep]_vars

\* a preset applied after the last point was dragged to the centre: the point
\* is still at the centre and has the first colour of the two-colour row
PresetOnMovedPoint ==
  /\ last.op = "applyPreset"
  /\ grid.rows = 3
  /\ LiveGrid.points[3][3].position = Vec(PosUnit \div 2, PosUnit \div 2)
  /\ LiveGrid.points[3][3].color = Rgba(0, 0, 100, 100)
  /\ LiveGrid.points[3][2].color = Rgba(0, 100, 0, 100)

\* C19: movePoint stores (old.x + dx / grid.width, old.y + dy / grid.height)
\* clamped per axis to [-1.5, 2.5]; every point's position lies in [-1.5, 2.5]
\* on both axes in every state, and no other bound is applied.
InOperationalBound(g) ==
  \A r \in 1..g.rows : \A c \in 1..g.cols :
    /\ g.points[r][c].position.x >= MinPos /\ g.points[r][c].position.x <= MaxPos
    /\ g.points[r][c].position.y >= MinPos /\ g.points[r][c].position.y <= MaxPos
MovePointStep ==
  /\ InOperationalBound(LiveGrid) /\ InOperationalBound(LiveGrid')
  /\ (last'.op = "movePoint" /\ ~thrown') =>
       LET old == LiveGrid.points[last'.row + 1][last'.col + 1].position
           new == LiveGrid'.points[last'.row + 1][last'.col + 1].position
       IN /\ new.x = Clamp(MinPos, MaxPos, old.x + Norm(last'.arg[1], grid.width))
          /\ new.y = Clamp(MinPos, MaxPos, old.y + Norm(last'.arg[2], grid.height))
MovePointOneBound == [][MovePointStep]_vars

-----------------------------------------------------------------------------
(* The glass pass without its resources *)

\* the grain pass ran to its end on the noise canvas
GrainPassRan ==
  \/ <<"drawNoiseOverlay", "skip">> \in Range(view.log)
       /\ (view.noiseCanvas.width <= 0 \/ view.noiseCanvas.height <= 0)
  \/ <<"drawNoiseOverlay", "clear">> \in Range(view.log)
       /\ (~noise.enabled \/ noise.intensity <= 0)
       /\ view.noiseCanvas.pixels = "clear"
  \/ <<"drawNoiseOverlay", "grain">> \in Range(view.log)
       /\ noise.enabled /\ noise.intensity > 0
       /\ view.noiseCanvas.pixels = "grain"

\* the last handler was a frame with effect.type = "glass" in which
\* initGlassGL() returned null
GlassUnavailableFrame ==
  /\ last.handler = "frame"
  /\ effect.type = "glass"
  /\ <<"initGlassGL", "null">> \in Range(view.log)

\* C20: after a frame in which effect.type is glass and initGlassGL returned
\* null, the glass overlay is cleared, the frame raised no error, the film-grain
\* pass ran, and the next frame is requested.
GlassPassDegrades ==
  GlassUnavailableFrame =>
    /\ view.glassCanvas.pixels = "clear"
    /\ view.glassGL = "null"
    /\ ~thrown /\ ~view.threw
    /\ GrainPassRan
    /\ view.pending
    /\ view.log[Len(view.log)] = <<"requestAnimationFrame", "frame">>

\* a frame on a host without a WebGL context, the glass effect chosen and the
\* grain enabled: the overlay is clear, the grain painted, the next frame
\* requested
GlassRefusedGrainPainted ==
  /\ GlassUnavailableFrame
  /\ <<"acquire", "no context">> \in Range(view.log)
  /\ view.glassCanvas.pixels = "clear"
  /\ noise.enabled /\ view.noiseCanvas.pixels = "grain"
  /\ view.pending /\ view.rafId > 1
-----------------------------------------------------------------------------
(* Acquisition of the glass resources; the order of the passes *)

\* C21: once an acquisition of the glass resources has failed, no later frame
\* asks the host for them again.
NoRetryAfterFailure == [][view.failed => view'.attempts = view.attempts]_vars

\* the position of a pass in the log of the last frame, 0 when it did not run
PassAt(pass) ==
  IF \E i \in DOMAIN view.log : view.log[i][1] = pass
  THEN MinOf({i \in DOMAIN view.log : view.log[i][1] = pass})
  ELSE 0

\* C22: in every frame the base render comes first, the glass pass captures the
\* base frame rendered in that frame, the grain pass comes after the glass pass,
\* and the next frame is requested last.
PassesInOrder ==
  last.handler = "frame" =>
    /\ PassAt("render") = 1
    /\ view.rendered.now = last.arg
    /\ PassAt("drawGlassOverlay") > 1
    /\ PassAt("capture") > 0 =>
         /\ PassAt("capture") > PassAt("render")
         /\ PassAt("capture") < PassAt("drawGlassOverlay")
         /\ view.captured = last.arg
    /\ PassAt("drawNoiseOverlay") > 0 =>
         PassAt("drawNoiseOverlay") > PassAt("drawGlassOverlay")
    /\ PassAt("requestAnimationFrame") > 0 =>
         /\ PassAt("requestAnimationFrame") = Len(view.log)
         /\ PassAt("drawNoiseOverlay") = Len(view.log) - 1
    /\ view.pending <=> PassAt("requestAnimationFrame") > 0
    /\ ~thrown => view.pending

\* a second frame, later than the first, whose glass pass captured the base
\* frame of its own time
CapturedOwnFrame ==
  /\ last.handler = "frame"
  /\ view.rafId > 1
  /\ last.arg = 1000
  /\ PassAt("capture") = 4
  /\ view.captured = 1000
-----------------------------------------------------------------------------
(* The renderer's resources *)

Geometries(R) == {x \in R.live : x.kind \in {"BufferGeometry", "PlaneGeometry"}}

\* C23: after one or more update(grid) calls exactly one geometry is live, it
\* is the one the renderer holds, and the scene holds exactly one mesh, made of
\* that geometry; after dispose() no resource the instance created is live.
OneGeometryOwned ==
  LET R == view.renderer
  IN /\ (R.created > 0 /\ ~view.disposed) =>
          /\ Geometries(R) = {R.geometry}
          /\ R.scene = {R.mesh}
          /\ R.mesh.geometry = R.geometry
          /\ R.geometry.id = R.created
     /\ view.disposed => R.live = {}
-----------------------------------------------------------------------------
(* The history and its index *)

\* C24: the history holds between 1 and 50 snapshots and the history index
\* designates one of them, in every state.
HistoryIndexValid ==
  /\ Len(history) >= 1
  /\ Len(history) <= 50
  /\ historyIndex >= 0
  /\ historyIndex <= Len(history) - 1
  /\ history[historyIndex + 1].rows >= 2

\* the 51st snapshot in a row has dropped the oldest one, and undo stepped
\* back from the newest
UndoneAtFullHistory ==
  /\ snaps >= 51
  /\ Len(history) = 50
  /\ last.op = "undo"
  /\ historyIndex = 48
\* what a snapshot() leaves of the history it found: the entries up to the
\* index and the clone of the grid, less the oldest entry beyond 50
SnapshotStep ==
  LET kept == historyIndex + 1
      drop == IF kept + 1 > 50 THEN 1 ELSE 0
  IN /\ historyIndex' = Len(history') - 1
     /\ Len(history') = kept + 1 - drop
     /\ \A i \in 1..(Len(history') - 1) :
          Deref(heap', history'[i]) = Deref(heap, history[i + drop])
     /\ Deref(heap', history'[Len(history')]) = Deref(heap', grid')
     /\ redo(St)' = St'

\* C25: a snapshot discards the redo branch: right after any snapshot the
\* history index is the last index, the entries beyond the former index are
\* gone, and redo() changes nothing.
SnapshotDropsRedo == [][snapped' = 1 => SnapshotStep]_vars

\* a snapshot taken two undos below the newest of 49 or more snapshots
SnapshotAfterUndos ==
  /\ last.op = "commitSnapshot"
  /\ snaps = 1
  /\ Len(history) = 48
  /\ historyIndex = 47
-----------------------------------------------------------------------------
(* The grid against the canvas size and the selection *)

\* C26: the grid's raster size equals the canvas size, in every state.
RasterAgrees ==
  /\ grid.width = canvasSize.width
  /\ grid.height = canvasSize.height

\* C27: a selection designates a point of the grid, in every state: its row is
\* in 0..rows-1 and its column in 0..cols-1.
SelectionInGrid ==
  selectedPoint # Null =>
    /\ selectedPoint.row >= 0 /\ selectedPoint.row < grid.rows
    /\ selectedPoint.col >= 0 /\ selectedPoint.col < grid.cols
    /\ selectedPoint.row < Len(LiveGrid.points)
    /\ selectedPoint.col < Len(LiveGrid.points[selectedPoint.row + 1])
-----------------------------------------------------------------------------
(* The indices of a tessellation *)

\* C28: every index tessellate writes is in 0..vertexCount-1 and is stored
\* without truncation in the index width chosen, and the triangles of the k-th
\* patch reference only the (S+1)^2 vertices made for that patch.
IndicesInRange ==
  /\ result.fn = "tessellate" =>
       LET g == result.args[1]
           S == result.args[2]
           t == result.value
           perPatch == (S + 1) * (S + 1)
       IN /\ \A i \in 0..(t.indices.length - 1) :
               LET k == i \div (6 * S * S)
               IN /\ t.indices.data[i] >= 0
                  /\ t.indices.data[i] < t.vertexCount
                  /\ t.indices.data[i] >= k * perPatch
                  /\ t.indices.data[i] < (k + 1) * perPatch
          /\ \A k \in 0..((g.rows - 1) * (g.cols - 1) - 1) :
               {t.indices.data[i] : i \in (6 * S * S * k)..(6 * S * S * (k + 1) - 1)}
                 = (k * perPatch)..((k + 1) * perPatch - 1)
          /\ Stored(t.indices.kind, t.vertexCount - 1) = t.vertexCount - 1
  /\ (result.fn = "tessellateSizes" /\ result.args[3] >= 1) =>
       LET t == result.value
       IN /\ t.vertexCount >= 4
          /\ Stored(t.indices.kind, t.vertexCount - 1) = t.vertexCount - 1

\* 3 x 3 points at S = 3: the fourth patch's indices run from 48 to 63
LastPatchOwnVertices ==
  /\ result.fn = "tessellate"
  /\ result.args[1].rows = 3 /\ result.args[1].cols = 3 /\ result.args[2] = 3
  /\ result.value.vertexCount = 64
  /\ result.value.indices.data[162] = 48
  /\ result.value.indices.data[215] = 63
-----------------------------------------------------------------------------
(* The seams between patches *)

\* the patch tessellate builds at patch row pr, patch column pc (0-based)
PatchAt(g, pr, pc) ==
  [tl |-> g.points[pr + 1][pc + 1], tr |-> g.points[pr + 1][pc + 2],
   bl |-> g.points[pr + 2][pc + 1], br |-> g.points[pr + 2][pc + 2]]

\* the clip-space position tessellate stored for vertex (row, col) of patch k
StoredPosition(t, S, k, row, col) ==
  LET vi == k * (S + 1) * (S + 1) + row * (S + 1) + col
  IN <<t.positions.data[vi * 3], t.positions.data[vi * 3 + 1],
       t.positions.data[vi * 3 + 2]>>

\* C29: neighbouring patches meet without cracks: patch (r, c) at (1, v) is
\* where patch (r, c + 1) is at (0, v), and patch (r, c) at (u, 1) is where
\* patch (r + 1, c) is at (u, 0); the vertices tessellate stores along a shared
\* edge are the same on both sides.
SeamsClosed ==
  result.fn = "tessellate" =>
    LET g == result.args[1]
        S == result.args[2]
        t == result.value
        patchCols == g.cols - 1
    IN /\ \A pr \in 0..(g.rows - 2), pc \in 0..(g.cols - 3), i \in 0..S :
            /\ evalPatchPosition(PatchAt(g, pr, pc), Frac(S, S), Frac(i, S),
                                  g.width, g.height)
                 = evalPatchPosition(PatchAt(g, pr, pc + 1), Frac(0, S), Frac(i, S),
                                     g.width, g.height)
            /\ StoredPosition(t, S, pr * patchCols + pc, i, S)
                 = StoredPosition(t, S, pr * patchCols + pc + 1, i, 0)
       /\ \A pr \in 0..(g.rows - 3), pc \in 0..(g.cols - 2), i \in 0..S :
            /\ evalPatchPosition(PatchAt(g, pr, pc), Frac(i, S), Frac(S, S),
                                  g.width, g.height)
                 = evalPatchPosition(PatchAt(g, pr + 1, pc), Frac(i, S), Frac(0, S),
                                     g.width, g.height)
            /\ StoredPosition(t, S, pr * patchCols + pc, S, i)
                 = StoredPosition(t, S, (pr + 1) * patchCols + pc, 0, i)

\* the middle point of a 3 x 3 grid dragged and bent, S = 3: the first patch's
\* right edge at v = 2/3 and its bottom edge at u = 1/3 leave the straight
\* grid lines, and the second and third patches start there
BentSeamShared ==
  /\ result.fn = "tessellate"
  /\ result.args[1] = BentMiddle(createDefaultGrid(3, 3, 8, 4, 0))
  /\ result.args[2] = 3
  /\ StoredPosition(result.value, 3, 0, 2, 3) = <<0 - 3260, 19852, 0>>
  /\ StoredPosition(result.value, 3, 1, 2, 0) = <<0 - 3260, 19852, 0>>
  /\ StoredPosition(result.value, 3, 0, 3, 1) = <<0 - 70149, 0 - 1703, 0>>
  /\ StoredPosition(result.value, 3, 2, 0, 1) = <<0 - 70149, 0 - 1703, 0>>
-----------------------------------------------------------------------------
(* What undo and redo touch *)

\* the grids of the history list, by value
Entries == [i \in DOMAIN history |-> Deref(heap, history[i])]

\* the state outside state.grid and the history index
Settings ==
  <<selectedPoint, hoveredPoint, canvasSize, artboardSize, subdivision,
    animation, effect, noise, canvasBackground, Entries>>

\* the handler of this step called undo() or redo()
UndoOrRedoStep ==
  /\ budget' = budget - 1
  /\ last'.op \in {"undo", "redo"}

\* the call found nothing to step to
AtEnd ==
  \/ last'.op = "undo" /\ historyIndex <= 0
  \/ last'.op = "redo" /\ historyIndex >= Len(history) - 1

\* C30: undo() and redo() change only state.grid and the history index: the
\* selection, the hover, the sizes, the subdivision, the animation, effect,
\* noise and background settings and the contents of the history stay as they
\* were; undo() at the oldest snapshot and redo() at the newest change nothing
\* and notify no listener.
UndoRedoFrame ==
  [][UndoOrRedoStep =>
       /\ Settings' = Settings
       /\ listeners' = listeners
       /\ IF AtEnd
          THEN /\ LiveGrid' = LiveGrid
               /\ historyIndex' = historyIndex
               /\ notified' = <<>>
               /\ seen' = <<>>
          ELSE /\ historyIndex' = historyIndex + (IF last'.op = "undo" THEN -1 ELSE 1)
               /\ Len(seen') = 1]_vars

\* undo() stepped back across a grid-size change while a point was selected,
\* another hovered and a listener subscribed
UndoneWithSelection ==
  /\ last.op = "undo"
  /\ selectedPoint # Null
  /\ hoveredPoint # Null
  /\ notified # <<>>
  /\ historyIndex < Len(history) - 1
  /\ LiveGrid.rows # history[historyIndex + 2].rows
====
